---- MODULE Spec2Model ----
(***************************************************************************)
(* Background-job handling of cvat/apps/engine/views.py: the export and    *)
(* import helpers (_export_annotations, _import_annotations,               *)
(* _import_project_dataset), the status pollers of ProjectViewSet and      *)
(* TaskViewSet, the RQ queue they talk to, and the Task/Data bookkeeping   *)
(* of TaskViewSet.perform_destroy.                                         *)
(*                                                                         *)
(* One HTTP request is one action: the views run inside the framework's    *)
(* synchronous request/response cycle.  The RQ worker and the database     *)
(* updates that happen between requests are actions of their own.          *)
(***************************************************************************)
EXTENDS Integers, Sequences, FiniteSets, TLC

\* ---------------------------------------------------------------- bounds

\* The clock (timezone.localtime()) runs over 0..MaxTime.
MaxTime == 2

\* Files mkstemp can hand out at the same time.
MaxFiles == 2

\* Entries the queue may hold under the task-creation identifier.
MaxQueue == 1

\* Data records the database ever allocates (auto-increment primary key).
MaxData == 3

\* Task records the database ever allocates (auto-increment primary key).
MaxTasks == 3

\* Requests handled at the same time.
MaxRequests == 2

\* ------------------------------------------------------------- constants

\* The absent job: what queue.fetch_job returns for an unknown identifier.
NoJob == [status |-> "absent"]

\* The empty text: a response without a body, a job without exc_info.
NoText == << >>

\* A job's return_value before the job has returned.
NoValue == [prefix |-> "none", path |-> << >>]

\* The meta of a job that was enqueued without one.
NoMeta == [k \in {} |-> 0]

\* No upload handler stands between enqueue_call and save_meta.
NoSaving == [rq_id |-> NoValue, tmp_file |-> 0, tmp_file_descriptor |-> 0]

\* request.user of the requests that are followed.
Users == {"admin1"}

\* The project and the task the requests address; the task belongs to the
\* project (db_instance.tasks.all()).
Project1 == [kind |-> "Project", id |-> "1"]

Task1 == [kind |-> "Task", id |-> "1"]

Instances == {Project1, Task1}

TasksOf(db_instance) ==
    IF db_instance = Project1 THEN {Task1} ELSE {}

\* dm.views.get_export_formats() / get_import_formats(): the registered
\* plugins, looked up by display name; one is disabled.
ExportFormats ==
    { [DISPLAY_NAME |-> "CVAT", enabled |-> TRUE],
      [DISPLAY_NAME |-> "Legacy", enabled |-> FALSE] }

ImportFormats ==
    { [DISPLAY_NAME |-> "CVAT", enabled |-> TRUE],
      [DISPLAY_NAME |-> "Legacy", enabled |-> FALSE] }

\* Format names a request may carry: enabled, disabled, unregistered.
FormatNames == {"CVAT", "Legacy", "Nope"}

\* Values of the action query parameter (already lower-cased).
ActionNames == {"", "download", "bogus"}

\* The qualified class name RQ puts in front of a CvatImportError.
ImportErrorPrefix == "cvat.apps.dataset_manager.bindings.CvatImportError"

\* rq_handler: exc_info is "<exception class>: <message>".
ExcInfos ==
    { <<ImportErrorPrefix, ": ", "bad annotation file">>,
      <<ImportErrorPrefix, ": ", "outer", ImportErrorPrefix, ": ", "inner">>,
      <<"ValueError", ": ", "boom">> }

\* ----------------------------------------------------------- identifiers

\* "/api/project/{pk}/dataset_import"
ProjectImportId(pk) ==
    [prefix |-> "", path |-> <<"api", "project", pk, "dataset_import">>]

\* "/api/project/{}/dataset/{}".format(pk, format_name)
ProjectExportId(pk, format_name) ==
    [prefix |-> "", path |-> <<"api", "project", pk, "dataset", format_name>>]

\* "/api/projects/{}/annotations/{}".format(pk, format_name)
ProjectAnnotationsId(pk, format_name) ==
    [prefix |-> "", path |-> <<"api", "projects", pk, "annotations", format_name>>]

\* "/api/tasks/{}/dataset/{}".format(pk, format_name)
TaskDatasetId(pk, format_name) ==
    [prefix |-> "", path |-> <<"api", "tasks", pk, "dataset", format_name>>]

\* "{}@/api/jobs/{}/annotations/upload".format(request.user, pk)
JobUploadId(user, pk) ==
    [prefix |-> user, path |-> <<"api", "jobs", pk, "annotations", "upload">>]

\* "/api/tasks/{}/annotations/{}".format(pk, format_name)
TaskExportId(pk, format_name) ==
    [prefix |-> "", path |-> <<"api", "tasks", pk, "annotations", format_name>>]

\* TaskUploadId without the requesting user in front.
TaskUploadIdNoUser(user, pk) ==
    [prefix |-> "", path |-> <<"api", "tasks", pk, "annotations", "upload">>]

\* "{}@/api/tasks/{}/annotations/upload".format(request.user, pk)
TaskUploadId(user, pk) ==
    [prefix |-> user, path |-> <<"api", "tasks", pk, "annotations", "upload">>]

\* f"/api/tasks/{pk}"
TaskCreateId(pk) ==
    [prefix |-> "", path |-> <<"api", "tasks", pk>>]

ExportIds ==
    { ProjectExportId("1", f) : f \in FormatNames } \cup
    { ProjectAnnotationsId("1", f) : f \in FormatNames } \cup
    { TaskExportId("1", f) : f \in FormatNames } \cup
    { TaskDatasetId("1", f) : f \in FormatNames }

UploadIds ==
    { TaskUploadId(u, "1") : u \in Users } \cup { JobUploadId(u, "1") : u \in Users }

RqIds ==
    ExportIds \cup UploadIds \cup {ProjectImportId("1"), TaskCreateId("1")}

\* ------------------------------------------------------------------ state

VARIABLES
    jobs,           \* the queue's job store: identifier -> job or NoJob
    queue,          \* how many entries of each identifier wait in the queue
    now,            \* timezone.localtime()
    updated_date,   \* updated_date of the project and of the task
    results,        \* export result files present in the cache directory
    tmp_files,      \* files created by mkstemp that still exist
    open_fds,       \* descriptors returned by mkstemp that are still open
    resp,           \* the last request and the response it got
    followed,       \* the job identifier this behaviour follows
    tasks,          \* Task table: task -> its Data id, 0 for no data
    datas,          \* Data table: ids of the Data records
    dirs,           \* directories on disk: task and data directories
    next_data,      \* next primary key of the Data table
    next_task,      \* next primary key of the Task table
    saving,         \* the upload handler that has enqueued its job and not
                    \* yet saved the job's meta
    pending,        \* the export handlers that have fetched no job and not
                    \* yet enqueued theirs
    sized           \* the Data records whose size is not 0

jobVars == <<jobs, queue, now, updated_date, results, tmp_files, open_fds, resp,
             followed, saving, pending>>

taskVars == <<tasks, datas, dirs, next_data, next_task, sized>>

vars == <<jobs, queue, now, updated_date, results, tmp_files, open_fds, resp,
          followed, tasks, datas, dirs, next_data, next_task, saving, pending, sized>>

\* ------------------------------------------------------------ the queue

\* The queue as the views see it: the job store and the waiting entries.
\* calls lists the calls a handler has made that write to the queue.
Rq == [jobs |-> jobs, queue |-> queue, calls |-> << >>]

\* queue.fetch_job(rq_id)
fetch_job(q, rq_id) == q.jobs[rq_id]

\* queue.enqueue_call(func, args, job_id, meta, result_ttl, failure_ttl):
\* stores a queued job under job_id, replacing what was stored there, and
\* adds one entry to the queue.
enqueue_call(q, job_id, meta, ttl) ==
    [jobs |-> [q.jobs EXCEPT ![job_id] =
                  [status |-> "queued", meta |-> meta, exc_info |-> NoText,
                   return_value |-> NoValue,
                   result_ttl |-> ttl, failure_ttl |-> ttl]],
     queue |-> [q.queue EXCEPT ![job_id] = @ + 1],
     calls |-> Append(q.calls, "enqueue_call")]

\* rq_job.cancel(): the job leaves the queue and is marked canceled.
cancel(q, rq_id) ==
    [jobs |-> [q.jobs EXCEPT ![rq_id].status = "canceled"],
     queue |-> [q.queue EXCEPT ![rq_id] = 0],
     calls |-> Append(q.calls, "cancel")]

\* rq_job.delete(): the job leaves the queue and the job store.
delete(q, rq_id) ==
    [jobs |-> [q.jobs EXCEPT ![rq_id] = NoJob],
     queue |-> [q.queue EXCEPT ![rq_id] = 0],
     calls |-> Append(q.calls, "delete")]

\* rq_job.is_finished, rq_job.is_failed, rq_job.is_queued
is_finished(rq_job) == rq_job.status = "finished"

is_failed(rq_job) == rq_job.status = "failed"

is_queued(rq_job) == rq_job.status = "queued"

\* ---------------------------------------------------------- the formats

\* FormatUnknown with the lookup never coming back empty.
FormatUnknownNever(formats, format_name) == FALSE

\* {f.DISPLAY_NAME: f for f in formats}.get(format_name) is None
FormatUnknown(formats, format_name) ==
    \A f \in formats : f.DISPLAY_NAME # format_name

\* FormatDisabled with the ENABLED flag ignored.
FormatDisabledNever(formats, format_name) == FALSE

\* not format_desc.ENABLED, for a format that is registered
FormatDisabled(formats, format_name) ==
    \E f \in formats : f.DISPLAY_NAME = format_name /\ ~f.enabled

\* ------------------------------------------------------------ responses

\* The record of a request and its response.  found is the status of the
\* job the handler fetched ("unfetched" when it returned before fetching);
\* stale tells whether an export handler judged that job out of date; args
\* are the query parameters of the request, filled in by the view.
Response(op, rq_id, found, stale, status, body) ==
    [seq |-> 1 - resp.seq, op |-> op, rq_id |-> rq_id, args |-> << >>,
     found |-> found, stale |-> stale, status |-> status, body |-> body,
     calls |-> << >>]

\* serializers.ValidationError(msg): the framework answers 400.
ValidationError(op, rq_id, msg) ==
    Response(op, rq_id, "unfetched", FALSE, 400, <<msg>>)

\* -------------------------------------------------- _export_annotations

\* last_instance_update_time: the instance's updated_date; for a project
\* the latest of its own and of its tasks' updated_date.
LastInstanceUpdateTime(db_instance) ==
    IF db_instance.kind = "Project"
    THEN CHOOSE m \in { updated_date[i] : i \in TasksOf(db_instance) \cup {db_instance} } :
            \A i \in TasksOf(db_instance) \cup {db_instance} : updated_date[i] <= m
    ELSE updated_date[db_instance]

\* IsStale with a job that records no request_time taken for up to date.
IsStaleNeedsRequestTime(rq_job, db_instance) ==
    /\ "request_time" \in DOMAIN rq_job.meta
    /\ rq_job.meta.request_time < LastInstanceUpdateTime(db_instance)

\* request_time is None or request_time < last_instance_update_time
IsStale(rq_job, db_instance) ==
    \/ "request_time" \notin DOMAIN rq_job.meta
    \/ rq_job.meta.request_time < LastInstanceUpdateTime(db_instance)

\* dm.views.PROJECT_CACHE_TTL if isinstance(db_instance, Project)
\* else dm.views.TASK_CACHE_TTL
\* CacheTtl without the isinstance test.
CacheTtlOfTasks(db_instance) == "TASK_CACHE_TTL"

\* ttl: dm.views.PROJECT_CACHE_TTL for a Project, TASK_CACHE_TTL otherwise.
CacheTtl(db_instance) ==
    IF db_instance.kind = "Project" THEN "PROJECT_CACHE_TTL" ELSE "TASK_CACHE_TTL"

\* osp.exists(file_path) for file_path = rq_job.return_value
ResultExists(rq_job) == rq_job.return_value \in results

\* The tail of _export_annotations: enqueue the export and answer 202.
ExportEnqueue(q, db_instance, rq_id, found, stale) ==
    [q |-> enqueue_call(q, rq_id, [request_time |-> now], CacheTtl(db_instance)),
     resp |-> Response("export", rq_id, found, stale, 202, NoText)]

\* ExportRelay that deletes the finished job when it answers 201.
ExportRelayDropsReadyJob(q, db_instance, rq_id, action) ==
    LET rq_job == fetch_job(q, rq_id) IN
    IF is_finished(rq_job)
    THEN IF action = "download" /\ ResultExists(rq_job)
         THEN [q |-> delete(q, rq_id),
               resp |-> Response("export", rq_id, rq_job.status, FALSE, 200,
                                 <<"attachment">>)]
         ELSE IF ResultExists(rq_job)
              THEN [q |-> delete(q, rq_id),
                    resp |-> Response("export", rq_id, rq_job.status, FALSE, 201,
                                      NoText)]
              ELSE ExportEnqueue(q, db_instance, rq_id, rq_job.status, FALSE)
    ELSE IF is_failed(rq_job)
         THEN [q |-> delete(q, rq_id),
               resp |-> Response("export", rq_id, rq_job.status, FALSE, 500,
                                 rq_job.exc_info)]
         ELSE [q |-> q,
               resp |-> Response("export", rq_id, rq_job.status, FALSE, 202, NoText)]

\* ExportRelay that leaves the job in the queue after sending the file.
ExportRelayKeepsSentJob(q, db_instance, rq_id, action) ==
    LET rq_job == fetch_job(q, rq_id) IN
    IF is_finished(rq_job)
    THEN IF action = "download" /\ ResultExists(rq_job)
         THEN [q |-> q,
               resp |-> Response("export", rq_id, rq_job.status, FALSE, 200,
                                 <<"attachment">>)]
         ELSE IF ResultExists(rq_job)
              THEN [q |-> q,
                    resp |-> Response("export", rq_id, rq_job.status, FALSE, 201,
                                      NoText)]
              ELSE ExportEnqueue(q, db_instance, rq_id, rq_job.status, FALSE)
    ELSE IF is_failed(rq_job)
         THEN [q |-> delete(q, rq_id),
               resp |-> Response("export", rq_id, rq_job.status, FALSE, 500,
                                 rq_job.exc_info)]
         ELSE [q |-> q,
               resp |-> Response("export", rq_id, rq_job.status, FALSE, 202, NoText)]

\* ExportRelay that deletes a finished job whose file is gone before the
\* export is enqueued again.
ExportRelayDeletesLostJob(q, db_instance, rq_id, action) ==
    LET rq_job == fetch_job(q, rq_id) IN
    IF is_finished(rq_job)
    THEN IF action = "download" /\ ResultExists(rq_job)
         THEN [q |-> delete(q, rq_id),
               resp |-> Response("export", rq_id, rq_job.status, FALSE, 200,
                                 <<"attachment">>)]
         ELSE IF ResultExists(rq_job)
              THEN [q |-> q,
                    resp |-> Response("export", rq_id, rq_job.status, FALSE, 201,
                                      NoText)]
              ELSE ExportEnqueue(delete(q, rq_id), db_instance, rq_id, rq_job.status, FALSE)
    ELSE IF is_failed(rq_job)
         THEN [q |-> delete(q, rq_id),
               resp |-> Response("export", rq_id, rq_job.status, FALSE, 500,
                                 rq_job.exc_info)]
         ELSE [q |-> q,
               resp |-> Response("export", rq_id, rq_job.status, FALSE, 202, NoText)]

\* ExportRelay with the is_failed branch lost: a failed job falls through
\* to the enqueue and is retried.
ExportRelayRetriesFailed(q, db_instance, rq_id, action) ==
    LET rq_job == fetch_job(q, rq_id) IN
    IF is_finished(rq_job)
    THEN IF action = "download" /\ ResultExists(rq_job)
         THEN [q |-> delete(q, rq_id),
               resp |-> Response("export", rq_id, rq_job.status, FALSE, 200,
                                 <<"attachment">>)]
         ELSE IF ResultExists(rq_job)
              THEN [q |-> q,
                    resp |-> Response("export", rq_id, rq_job.status, FALSE, 201,
                                      NoText)]
              ELSE ExportEnqueue(q, db_instance, rq_id, rq_job.status, FALSE)
    ELSE IF is_failed(rq_job)
         THEN ExportEnqueue(q, db_instance, rq_id, rq_job.status, FALSE)
         ELSE [q |-> q,
               resp |-> Response("export", rq_id, rq_job.status, FALSE, 202, NoText)]

\* ExportRelay with the final "else: return 202" lost: a job that is still
\* queued or started falls through to the enqueue.
ExportRelayEnqueuesAgain(q, db_instance, rq_id, action) ==
    LET rq_job == fetch_job(q, rq_id) IN
    IF is_finished(rq_job)
    THEN IF action = "download" /\ ResultExists(rq_job)
         THEN [q |-> delete(q, rq_id),
               resp |-> Response("export", rq_id, rq_job.status, FALSE, 200,
                                 <<"attachment">>)]
         ELSE IF ResultExists(rq_job)
              THEN [q |-> q,
                    resp |-> Response("export", rq_id, rq_job.status, FALSE, 201,
                                      NoText)]
              ELSE ExportEnqueue(q, db_instance, rq_id, rq_job.status, FALSE)
    ELSE IF is_failed(rq_job)
         THEN [q |-> delete(q, rq_id),
               resp |-> Response("export", rq_id, rq_job.status, FALSE, 500,
                                 rq_job.exc_info)]
         ELSE ExportEnqueue(q, db_instance, rq_id, rq_job.status, FALSE)

\* The branch of _export_annotations for a job that is not out of date.
ExportRelay(q, db_instance, rq_id, action) ==
    LET rq_job == fetch_job(q, rq_id) IN
    IF is_finished(rq_job)
    THEN IF action = "download" /\ ResultExists(rq_job)
         THEN [q |-> delete(q, rq_id),
               resp |-> Response("export", rq_id, rq_job.status, FALSE, 200,
                                 <<"attachment">>)]
         ELSE IF ResultExists(rq_job)
              THEN [q |-> q,
                    resp |-> Response("export", rq_id, rq_job.status, FALSE, 201,
                                      NoText)]
              ELSE ExportEnqueue(q, db_instance, rq_id, rq_job.status, FALSE)
    ELSE IF is_failed(rq_job)
         THEN [q |-> delete(q, rq_id),
               resp |-> Response("export", rq_id, rq_job.status, FALSE, 500,
                                 rq_job.exc_info)]
         ELSE [q |-> q,
               resp |-> Response("export", rq_id, rq_job.status, FALSE, 202, NoText)]

\* The branch of _export_annotations for a job that is out of date.
ExportReplace(q, db_instance, rq_id) ==
    ExportEnqueue(delete(cancel(q, rq_id), rq_id), db_instance, rq_id,
                  fetch_job(q, rq_id).status, TRUE)

\* _export_annotations(db_instance, rq_id, request, format_name, action, ...):
\* the queue it leaves and the response it gives.
ExportResult(q, db_instance, rq_id, format_name, action) ==
    IF action \notin {"", "download"}
    THEN [q |-> q,
          resp |-> ValidationError("export", rq_id,
                                   "Unexpected action specified for the request")]
    ELSE IF FormatUnknown(ExportFormats, format_name)
    THEN [q |-> q,
          resp |-> ValidationError("export", rq_id,
                                   "Unknown format specified for the request")]
    ELSE IF FormatDisabled(ExportFormats, format_name)
    THEN [q |-> q,
          resp |-> Response("export", rq_id, "unfetched", FALSE, 405, NoText)]
    ELSE IF fetch_job(q, rq_id) # NoJob
    THEN IF IsStale(fetch_job(q, rq_id), db_instance)
         THEN ExportReplace(q, db_instance, rq_id)
         ELSE ExportRelay(q, db_instance, rq_id, action)
    ELSE ExportEnqueue(q, db_instance, rq_id, "absent", FALSE)

\* A request handled by _export_annotations.
ExportAnnotations(db_instance, rq_id, format_name, action) ==
    LET r == ExportResult(Rq, db_instance, rq_id, format_name, action) IN
    /\ jobs' = r.q.jobs
    /\ queue' = r.q.queue
    /\ resp' = [r.resp EXCEPT !.args = <<format_name, action>>, !.calls = r.q.calls]
    /\ UNCHANGED <<now, updated_date, results, tmp_files, open_fds>>
    /\ UNCHANGED <<followed, tasks, datas, dirs, next_data, next_task, saving, pending, sized>>

\* _export_annotations up to the test of the fetched job, for a request
\* with valid arguments that fetches no job: the handler stands before the
\* enqueue.  Any other request is handled in one step.
ExportBegin(slot, db_instance, rq_id, format_name, action) ==
    IF /\ action \in {"", "download"}
       /\ ~FormatUnknown(ExportFormats, format_name)
       /\ ~FormatDisabled(ExportFormats, format_name)
       /\ fetch_job(Rq, rq_id) = NoJob
    THEN /\ \A h \in pending : h.slot # slot
         /\ pending' = pending \cup
                {[slot |-> slot, db_instance |-> db_instance, rq_id |-> rq_id,
                  format_name |-> format_name, action |-> action]}
         /\ UNCHANGED <<jobs, queue, now, updated_date, results, tmp_files, open_fds, resp>>
         /\ UNCHANGED <<followed, tasks, datas, dirs, next_data, next_task, saving, sized>>
    ELSE ExportAnnotations(db_instance, rq_id, format_name, action)

\* The rest of that request: queue.enqueue_call(...); return 202.
ExportEnd(slot) ==
    \E h \in pending :
        /\ h.slot = slot
        /\ LET r == ExportEnqueue(Rq, h.db_instance, h.rq_id, "absent", FALSE) IN
              /\ jobs' = r.q.jobs
              /\ queue' = r.q.queue
              /\ resp' = [r.resp EXCEPT !.args = <<h.format_name, h.action>>,
                                        !.calls = r.q.calls]
        /\ pending' = pending \ {h}
        /\ UNCHANGED <<now, updated_date, results, tmp_files, open_fds>>
        /\ UNCHANGED <<followed, tasks, datas, dirs, next_data, next_task, saving, sized>>

\* ProjectViewSet.dataset, GET without action=import_status: export of the
\* project as a dataset.
ProjectDatasetExport(pk, format_name, action) ==
    /\ action # "import_status"
    /\ ExportAnnotations(Project1, ProjectExportId(pk, format_name), format_name, action)

\* TaskViewSet.annotations, GET with a format: export of the task's
\* annotations.
TaskAnnotationsExport(pk, format_name, action) ==
    ExportAnnotations(Task1, TaskExportId(pk, format_name), format_name, action)

\* TaskViewSet.dataset_export: export of the task as a dataset.
TaskDatasetExport(pk, format_name, action) ==
    ExportAnnotations(Task1, TaskDatasetId(pk, format_name), format_name, action)

\* The status ProjectViewSet.annotations answers a request without format.
NoFormatStatus == 400

\* ProjectViewSet.annotations: export of the project's annotations; a
\* request without format is answered at once.
ProjectAnnotations(pk, format_name, action) ==
    IF format_name # ""
    THEN ExportAnnotations(Project1, ProjectAnnotationsId(pk, format_name),
                           format_name, action)
    ELSE /\ resp' = [Response("project_annotations", NoValue, "unfetched", FALSE,
                               NoFormatStatus, <<"Format is not specified">>)
                        EXCEPT !.args = <<format_name, action>>]
         /\ UNCHANGED <<jobs, queue, now, updated_date, results, tmp_files, open_fds>>
         /\ UNCHANGED <<followed, tasks, datas, dirs, next_data, next_task, saving, pending, sized>>

\* -------------------------------------------------- _import_annotations

\* request.data as a query argument of the record of the request.
FileArg(file_valid) == IF file_valid THEN "valid file" ELSE "invalid file"

\* mkstemp(prefix=...): a file name and a descriptor that are not in use.
FreeNames(used) == { n \in 1..MaxFiles : n \notin used }

mkstemp_name == CHOOSE n \in FreeNames(tmp_files) : \A m \in FreeNames(tmp_files) : n <= m

mkstemp_fd == CHOOSE n \in FreeNames(open_fds) : \A m \in FreeNames(open_fds) : n <= m

\* The file system as the import views see it.
Fs == [tmp_files |-> tmp_files, open_fds |-> open_fds]

\* rq_job.meta holds the keys the import views read.
HasTmpFile(rq_job) ==
    {"tmp_file", "tmp_file_descriptor"} \subseteq DOMAIN rq_job.meta

\* rq_job.meta['tmp_file_descriptor'] without the key: the KeyError leaves
\* the view and the framework answers 500.
KeyError(op, rq_id, found) ==
    Response(op, rq_id, found, FALSE, 500, <<"KeyError", ": ", "tmp_file_descriptor">>)

\* os.close(rq_job.meta['tmp_file_descriptor']); os.remove(rq_job.meta['tmp_file'])
CloseAndRemove(fs, rq_job) ==
    [tmp_files |-> fs.tmp_files \ {rq_job.meta.tmp_file},
     open_fds |-> fs.open_fds \ {rq_job.meta.tmp_file_descriptor}]

\* mkstemp and the write of the uploaded chunks
StoreUpload(fs) ==
    [tmp_files |-> fs.tmp_files \cup {mkstemp_name},
     open_fds |-> fs.open_fds \cup {mkstemp_fd}]

\* The import request reaches mkstemp: the format is enabled, no job is
\* stored under rq_id and the serializer accepts the file.
NeedsUpload(q, rq_id, format_name, file_valid) ==
    /\ ~FormatUnknown(ImportFormats, format_name)
    /\ ~FormatDisabled(ImportFormats, format_name)
    /\ fetch_job(q, rq_id) = NoJob
    /\ file_valid

\* exc_info.startswith(import_error_prefix)
StartsWithImportError(exc_info) ==
    Len(exc_info) > 0 /\ exc_info[1] = ImportErrorPrefix

\* exc_info.replace(import_error_prefix + ': ', '')
RECURSIVE StripImportError(_)
StripImportError(exc_info) ==
    IF Len(exc_info) = 0 THEN << >>
    ELSE IF Len(exc_info) >= 2 /\ exc_info[1] = ImportErrorPrefix /\ exc_info[2] = ": "
    THEN StripImportError(SubSeq(exc_info, 3, Len(exc_info)))
    ELSE <<exc_info[1]>> \o StripImportError(Tail(exc_info))

\* UploadFailure without the look at the exception class: every failure is
\* relayed as 400 with the text as it is.
UploadFailureAlways400(rq_id, exc_info) ==
    Response("upload", rq_id, "failed", FALSE, 400, exc_info)

\* The response of _import_annotations to a failed job: 400 with the
\* prefix removed for a CvatImportError, 500 otherwise.
UploadFailure(rq_id, exc_info) ==
    IF StartsWithImportError(exc_info)
    THEN Response("upload", rq_id, "failed", FALSE, 400, StripImportError(exc_info))
    ELSE Response("upload", rq_id, "failed", FALSE, 500, exc_info)

\* ImportResult that takes the upload of a request that finds the job
\* queued or started and enqueues it as well.
ImportResultEnqueuesAgain(q, fs, rq_id, format_name, file_valid) ==
    LET rq_job == fetch_job(q, rq_id) IN
    IF FormatUnknown(ImportFormats, format_name)
    THEN [q |-> q, fs |-> fs,
          resp |-> ValidationError("upload", rq_id, "Unknown input format")]
    ELSE IF FormatDisabled(ImportFormats, format_name)
    THEN [q |-> q, fs |-> fs,
          resp |-> Response("upload", rq_id, "unfetched", FALSE, 405, NoText)]
    ELSE IF rq_job = NoJob
    THEN IF ~file_valid
         THEN [q |-> q, fs |-> fs,
               resp |-> Response("upload", rq_id, "absent", FALSE, 400,
                                 <<"annotation_file is invalid">>)]
         ELSE [q |-> enqueue_call(q, rq_id,
                        [tmp_file |-> mkstemp_name,
                         tmp_file_descriptor |-> mkstemp_fd], "default"),
               fs |-> StoreUpload(fs),
               resp |-> Response("upload", rq_id, "absent", FALSE, 202, NoText)]
    ELSE IF (is_finished(rq_job) \/ is_failed(rq_job)) /\ ~HasTmpFile(rq_job)
    THEN [q |-> q, fs |-> fs, resp |-> KeyError("upload", rq_id, rq_job.status)]
    ELSE IF is_finished(rq_job)
    THEN [q |-> delete(q, rq_id), fs |-> CloseAndRemove(fs, rq_job),
          resp |-> Response("upload", rq_id, "finished", FALSE, 201, NoText)]
    ELSE IF is_failed(rq_job)
    THEN [q |-> delete(q, rq_id), fs |-> CloseAndRemove(fs, rq_job),
          resp |-> UploadFailure(rq_id, rq_job.exc_info)]
    ELSE [q |-> enqueue_call(q, rq_id, rq_job.meta, "default"), fs |-> fs,
          resp |-> Response("upload", rq_id, rq_job.status, FALSE, 202, NoText)]

\* ImportResult that leaves the finished job in the queue.
ImportResultKeepsFinished(q, fs, rq_id, format_name, file_valid) ==
    LET rq_job == fetch_job(q, rq_id) IN
    IF FormatUnknown(ImportFormats, format_name)
    THEN [q |-> q, fs |-> fs,
          resp |-> ValidationError("upload", rq_id, "Unknown input format")]
    ELSE IF FormatDisabled(ImportFormats, format_name)
    THEN [q |-> q, fs |-> fs,
          resp |-> Response("upload", rq_id, "unfetched", FALSE, 405, NoText)]
    ELSE IF rq_job = NoJob
    THEN IF ~file_valid
         THEN [q |-> q, fs |-> fs,
               resp |-> Response("upload", rq_id, "absent", FALSE, 400,
                                 <<"annotation_file is invalid">>)]
         ELSE [q |-> enqueue_call(q, rq_id,
                        [tmp_file |-> mkstemp_name,
                         tmp_file_descriptor |-> mkstemp_fd], "default"),
               fs |-> StoreUpload(fs),
               resp |-> Response("upload", rq_id, "absent", FALSE, 202, NoText)]
    ELSE IF (is_finished(rq_job) \/ is_failed(rq_job)) /\ ~HasTmpFile(rq_job)
    THEN [q |-> q, fs |-> fs, resp |-> KeyError("upload", rq_id, rq_job.status)]
    ELSE IF is_finished(rq_job)
    THEN [q |-> q, fs |-> CloseAndRemove(fs, rq_job),
          resp |-> Response("upload", rq_id, "finished", FALSE, 201, NoText)]
    ELSE IF is_failed(rq_job)
    THEN [q |-> delete(q, rq_id), fs |-> CloseAndRemove(fs, rq_job),
          resp |-> UploadFailure(rq_id, rq_job.exc_info)]
    ELSE [q |-> q, fs |-> fs,
          resp |-> Response("upload", rq_id, rq_job.status, FALSE, 202, NoText)]

\* _import_annotations(request, rq_id, rq_func, pk, format_name):
\* the queue and the files it leaves and the response it gives.
\* file_valid: AnnotationFileSerializer accepts request.data.
ImportResult(q, fs, rq_id, format_name, file_valid) ==
    LET rq_job == fetch_job(q, rq_id) IN
    IF FormatUnknown(ImportFormats, format_name)
    THEN [q |-> q, fs |-> fs,
          resp |-> ValidationError("upload", rq_id, "Unknown input format")]
    ELSE IF FormatDisabled(ImportFormats, format_name)
    THEN [q |-> q, fs |-> fs,
          resp |-> Response("upload", rq_id, "unfetched", FALSE, 405, NoText)]
    ELSE IF rq_job = NoJob
    THEN IF ~file_valid
         THEN [q |-> q, fs |-> fs,
               resp |-> Response("upload", rq_id, "absent", FALSE, 400,
                                 <<"annotation_file is invalid">>)]
         ELSE [q |-> enqueue_call(q, rq_id,
                        [tmp_file |-> mkstemp_name,
                         tmp_file_descriptor |-> mkstemp_fd], "default"),
               fs |-> StoreUpload(fs),
               resp |-> Response("upload", rq_id, "absent", FALSE, 202, NoText)]
    ELSE IF (is_finished(rq_job) \/ is_failed(rq_job)) /\ ~HasTmpFile(rq_job)
    THEN [q |-> q, fs |-> fs, resp |-> KeyError("upload", rq_id, rq_job.status)]
    ELSE IF is_finished(rq_job)
    THEN [q |-> delete(q, rq_id), fs |-> CloseAndRemove(fs, rq_job),
          resp |-> Response("upload", rq_id, "finished", FALSE, 201, NoText)]
    ELSE IF is_failed(rq_job)
    THEN [q |-> delete(q, rq_id), fs |-> CloseAndRemove(fs, rq_job),
          resp |-> UploadFailure(rq_id, rq_job.exc_info)]
    ELSE [q |-> q, fs |-> fs,
          resp |-> Response("upload", rq_id, rq_job.status, FALSE, 202, NoText)]

\* A request handled by _import_annotations.
ImportAnnotations(rq_id, format_name, file_valid) ==
    LET r == ImportResult(Rq, Fs, rq_id, format_name, file_valid) IN
    /\ NeedsUpload(Rq, rq_id, format_name, file_valid)
          => FreeNames(tmp_files) # {} /\ FreeNames(open_fds) # {}
    /\ jobs' = r.q.jobs
    /\ queue' = r.q.queue
    /\ tmp_files' = r.fs.tmp_files
    /\ open_fds' = r.fs.open_fds
    /\ resp' = [r.resp EXCEPT !.args = <<format_name, FileArg(file_valid)>>,
                            !.calls = r.q.calls]
    /\ UNCHANGED <<now, updated_date, results>>
    /\ UNCHANGED <<followed, tasks, datas, dirs, next_data, next_task, saving, pending, sized>>

\* _import_annotations up to enqueue_call, for a request that finds no job:
\* the file is stored and the job enqueued, its meta still empty.  Any
\* other request is handled in one step.
UploadBegin(rq_id, format_name, file_valid) ==
    IF NeedsUpload(Rq, rq_id, format_name, file_valid)
    THEN /\ saving = NoSaving
         /\ FreeNames(tmp_files) # {} /\ FreeNames(open_fds) # {}
         /\ LET q == enqueue_call(Rq, rq_id, NoMeta, "default")
                fs == StoreUpload(Fs)
            IN /\ jobs' = q.jobs
               /\ queue' = q.queue
               /\ tmp_files' = fs.tmp_files
               /\ open_fds' = fs.open_fds
         /\ saving' = [rq_id |-> rq_id, tmp_file |-> mkstemp_name,
                       tmp_file_descriptor |-> mkstemp_fd]
         /\ UNCHANGED <<now, updated_date, results, resp>>
         /\ UNCHANGED <<followed, tasks, datas, dirs, next_data, next_task, pending, sized>>
    ELSE ImportAnnotations(rq_id, format_name, file_valid)

\* The rest of that request: rq_job.meta[...] = ...; rq_job.save_meta();
\* return 202.
UploadSaveMeta ==
    /\ saving # NoSaving
    /\ jobs' = [jobs EXCEPT ![saving.rq_id].meta =
                    [tmp_file |-> saving.tmp_file,
                     tmp_file_descriptor |-> saving.tmp_file_descriptor]]
    /\ resp' = [Response("upload", saving.rq_id, "absent", FALSE, 202, NoText)
                   EXCEPT !.calls = <<"enqueue_call", "save_meta">>]
    /\ saving' = NoSaving
    /\ UNCHANGED <<queue, now, updated_date, results, tmp_files, open_fds>>
    /\ UNCHANGED <<followed, tasks, datas, dirs, next_data, next_task, pending, sized>>

\* TaskViewSet.annotations, PUT with a format: upload of annotations.
TaskAnnotationsUpload(user, pk, format_name, file_valid) ==
    ImportAnnotations(TaskUploadId(user, pk), format_name, file_valid)

\* JobViewSet.annotations, PUT with a format: upload of annotations.
JobAnnotationsUpload(user, pk, format_name, file_valid) ==
    ImportAnnotations(JobUploadId(user, pk), format_name, file_valid)

\* ---------------------------------------------- _import_project_dataset

\* ImportProjectResult that clears the job it finds before answering 409.
ImportProjectDropsJob(q, fs, rq_id, format_name, file_valid) ==
    LET rq_job == fetch_job(q, rq_id) IN
    IF FormatUnknown(ImportFormats, format_name)
    THEN [q |-> q, fs |-> fs,
          resp |-> ValidationError("import_project", rq_id, "Unknown input format")]
    ELSE IF FormatDisabled(ImportFormats, format_name)
    THEN [q |-> q, fs |-> fs,
          resp |-> Response("import_project", rq_id, "unfetched", FALSE, 405, NoText)]
    ELSE IF rq_job = NoJob
    THEN IF ~file_valid
         THEN [q |-> q, fs |-> fs,
               resp |-> Response("import_project", rq_id, "absent", FALSE, 400,
                                 <<"dataset_file is invalid">>)]
         ELSE [q |-> enqueue_call(q, rq_id,
                        [tmp_file |-> mkstemp_name,
                         tmp_file_descriptor |-> mkstemp_fd], "default"),
               fs |-> StoreUpload(fs),
               resp |-> Response("import_project", rq_id, "absent", FALSE, 202, NoText)]
    ELSE [q |-> delete(q, rq_id), fs |-> fs,
          resp |-> Response("import_project", rq_id, rq_job.status, FALSE, 409,
                            <<"Import job already exists">>)]

\* ImportProjectResult that treats a finished job as no job: it starts a
\* new import over it.
ImportProjectRestartsFinished(q, fs, rq_id, format_name, file_valid) ==
    LET rq_job == fetch_job(q, rq_id) IN
    IF FormatUnknown(ImportFormats, format_name)
    THEN [q |-> q, fs |-> fs,
          resp |-> ValidationError("import_project", rq_id, "Unknown input format")]
    ELSE IF FormatDisabled(ImportFormats, format_name)
    THEN [q |-> q, fs |-> fs,
          resp |-> Response("import_project", rq_id, "unfetched", FALSE, 405, NoText)]
    ELSE IF rq_job = NoJob \/ is_finished(rq_job)
    THEN IF ~file_valid
         THEN [q |-> q, fs |-> fs,
               resp |-> Response("import_project", rq_id, rq_job.status, FALSE, 400,
                                 <<"dataset_file is invalid">>)]
         ELSE [q |-> enqueue_call(q, rq_id,
                        [tmp_file |-> mkstemp_name,
                         tmp_file_descriptor |-> mkstemp_fd], "default"),
               fs |-> StoreUpload(fs),
               resp |-> Response("import_project", rq_id, rq_job.status, FALSE, 202, NoText)]
    ELSE [q |-> q, fs |-> fs,
          resp |-> Response("import_project", rq_id, rq_job.status, FALSE, 409,
                            <<"Import job already exists">>)]

\* _import_project_dataset(request, rq_id, rq_func, pk, format_name).
\* file_valid: DatasetFileSerializer accepts request.data.
ImportProjectResult(q, fs, rq_id, format_name, file_valid) ==
    LET rq_job == fetch_job(q, rq_id) IN
    IF FormatUnknown(ImportFormats, format_name)
    THEN [q |-> q, fs |-> fs,
          resp |-> ValidationError("import_project", rq_id, "Unknown input format")]
    ELSE IF FormatDisabled(ImportFormats, format_name)
    THEN [q |-> q, fs |-> fs,
          resp |-> Response("import_project", rq_id, "unfetched", FALSE, 405, NoText)]
    ELSE IF rq_job = NoJob
    THEN IF ~file_valid
         THEN [q |-> q, fs |-> fs,
               resp |-> Response("import_project", rq_id, "absent", FALSE, 400,
                                 <<"dataset_file is invalid">>)]
         ELSE [q |-> enqueue_call(q, rq_id,
                        [tmp_file |-> mkstemp_name,
                         tmp_file_descriptor |-> mkstemp_fd], "default"),
               fs |-> StoreUpload(fs),
               resp |-> Response("import_project", rq_id, "absent", FALSE, 202, NoText)]
    ELSE [q |-> q, fs |-> fs,
          resp |-> Response("import_project", rq_id, rq_job.status, FALSE, 409,
                            <<"Import job already exists">>)]

\* ProjectViewSet.dataset, POST: import of a dataset into the project.
ProjectDatasetImport(pk, format_name, file_valid) ==
    LET r == ImportProjectResult(Rq, Fs, ProjectImportId(pk), format_name, file_valid) IN
    /\ NeedsUpload(Rq, ProjectImportId(pk), format_name, file_valid)
          => FreeNames(tmp_files) # {} /\ FreeNames(open_fds) # {}
    /\ jobs' = r.q.jobs
    /\ queue' = r.q.queue
    /\ tmp_files' = r.fs.tmp_files
    /\ open_fds' = r.fs.open_fds
    /\ resp' = [r.resp EXCEPT !.args = <<format_name, FileArg(file_valid)>>,
                            !.calls = r.q.calls]
    /\ UNCHANGED <<now, updated_date, results>>
    /\ UNCHANGED <<followed, tasks, datas, dirs, next_data, next_task, saving, pending, sized>>

\* ------------------------------------------------------- status pollers

\* ProjectViewSet._get_rq_response(queue, job_id): the response dict.
ProjectGetRqResponse(q, job_id) ==
    LET job == fetch_job(q, job_id) IN
    IF job = NoJob \/ is_finished(job) THEN [state |-> <<"Finished">>]
    ELSE IF is_queued(job) THEN [state |-> <<"Queued">>]
    ELSE IF is_failed(job) THEN [state |-> <<"Failed">>, message |-> job.exc_info]
    ELSE [state |-> <<"Started">>,
          message |-> IF "status" \in DOMAIN job.meta THEN job.meta.status ELSE <<"">>,
          progress |-> IF "progress" \in DOMAIN job.meta THEN job.meta.progress ELSE <<"0.">>]

\* TaskGetRqResponse without the "job is None" test: an absent job is
\* neither finished, queued nor failed.
TaskGetRqResponseNoneIsStarted(q, job_id) ==
    LET job == fetch_job(q, job_id) IN
    IF is_finished(job) THEN [state |-> <<"Finished">>]
    ELSE IF is_queued(job) THEN [state |-> <<"Queued">>]
    ELSE IF is_failed(job) THEN [state |-> <<"Failed">>, message |-> job.exc_info]
    ELSE [state |-> <<"Started">>, progress |-> <<"0.">>]

\* TaskGetRqResponse with the is_queued branch lost: a queued job is
\* reported as started.
TaskGetRqResponseQueuedIsStarted(q, job_id) ==
    LET job == fetch_job(q, job_id) IN
    IF job = NoJob \/ is_finished(job) THEN [state |-> <<"Finished">>]
    ELSE IF is_failed(job) THEN [state |-> <<"Failed">>, message |-> job.exc_info]
    ELSE IF "status" \in DOMAIN job.meta
         THEN [state |-> <<"Started">>, message |-> job.meta.status,
               progress |-> IF "task_progress" \in DOMAIN job.meta
                            THEN job.meta.task_progress ELSE <<"0.">>]
         ELSE [state |-> <<"Started">>,
               progress |-> IF "task_progress" \in DOMAIN job.meta
                            THEN job.meta.task_progress ELSE <<"0.">>]

\* TaskViewSet._get_rq_response(queue, job_id): the response dict.
TaskGetRqResponse(q, job_id) ==
    LET job == fetch_job(q, job_id) IN
    IF job = NoJob \/ is_finished(job) THEN [state |-> <<"Finished">>]
    ELSE IF is_queued(job) THEN [state |-> <<"Queued">>]
    ELSE IF is_failed(job) THEN [state |-> <<"Failed">>, message |-> job.exc_info]
    ELSE IF "status" \in DOMAIN job.meta
         THEN [state |-> <<"Started">>, message |-> job.meta.status,
               progress |-> IF "task_progress" \in DOMAIN job.meta
                            THEN job.meta.task_progress ELSE <<"0.">>]
         ELSE [state |-> <<"Started">>,
               progress |-> IF "task_progress" \in DOMAIN job.meta
                            THEN job.meta.task_progress ELSE <<"0.">>]

\* The response dict as the body of a response: its values in key order.
DictBody(d) ==
    d.state \o (IF "message" \in DOMAIN d THEN d.message ELSE << >>)
            \o (IF "progress" \in DOMAIN d THEN d.progress ELSE << >>)

\* ImportStatusResult with the is_failed branch lost: a failed job is
\* answered like a running one.
ImportStatusHidesFailure(q, fs, rq_id) ==
    LET rq_job == fetch_job(q, rq_id) IN
    IF rq_job = NoJob
    THEN [q |-> q, fs |-> fs,
          resp |-> Response("import_status", rq_id, "absent", FALSE, 404, NoText)]
    ELSE IF is_finished(rq_job)
    THEN [q |-> delete(q, rq_id), fs |-> CloseAndRemove(fs, rq_job),
          resp |-> Response("import_status", rq_id, "finished", FALSE, 201, NoText)]
    ELSE [q |-> q, fs |-> fs,
          resp |-> Response("import_status", rq_id, rq_job.status, FALSE, 202,
                            DictBody(ProjectGetRqResponse(q, rq_id)))]

\* ImportStatusResult that answers 201 for a finished job and leaves the job
\* and its temporary file where they are.
ImportStatusKeepsFinished(q, fs, rq_id) ==
    LET rq_job == fetch_job(q, rq_id) IN
    IF rq_job = NoJob
    THEN [q |-> q, fs |-> fs,
          resp |-> Response("import_status", rq_id, "absent", FALSE, 404, NoText)]
    ELSE IF is_finished(rq_job)
    THEN [q |-> q, fs |-> fs,
          resp |-> Response("import_status", rq_id, "finished", FALSE, 201, NoText)]
    ELSE IF is_failed(rq_job)
    THEN [q |-> delete(q, rq_id), fs |-> CloseAndRemove(fs, rq_job),
          resp |-> Response("import_status", rq_id, "failed", FALSE, 500,
                            rq_job.exc_info)]
    ELSE [q |-> q, fs |-> fs,
          resp |-> Response("import_status", rq_id, rq_job.status, FALSE, 202,
                            DictBody(ProjectGetRqResponse(q, rq_id)))]

\* ProjectViewSet.dataset, GET with action=import_status.
ImportStatusResult(q, fs, rq_id) ==
    LET rq_job == fetch_job(q, rq_id) IN
    IF rq_job = NoJob
    THEN [q |-> q, fs |-> fs,
          resp |-> Response("import_status", rq_id, "absent", FALSE, 404, NoText)]
    ELSE IF is_finished(rq_job)
    THEN [q |-> delete(q, rq_id), fs |-> CloseAndRemove(fs, rq_job),
          resp |-> Response("import_status", rq_id, "finished", FALSE, 201, NoText)]
    ELSE IF is_failed(rq_job)
    THEN [q |-> delete(q, rq_id), fs |-> CloseAndRemove(fs, rq_job),
          resp |-> Response("import_status", rq_id, "failed", FALSE, 500,
                            rq_job.exc_info)]
    ELSE [q |-> q, fs |-> fs,
          resp |-> Response("import_status", rq_id, rq_job.status, FALSE, 202,
                            DictBody(ProjectGetRqResponse(q, rq_id)))]

ProjectImportStatus(pk) ==
    LET r == ImportStatusResult(Rq, Fs, ProjectImportId(pk)) IN
    /\ jobs' = r.q.jobs
    /\ queue' = r.q.queue
    /\ tmp_files' = r.fs.tmp_files
    /\ open_fds' = r.fs.open_fds
    /\ resp' = [r.resp EXCEPT !.calls = r.q.calls]
    /\ UNCHANGED <<now, updated_date, results>>
    /\ UNCHANGED <<followed, tasks, datas, dirs, next_data, next_task, saving, pending, sized>>

\* TaskViewSet.status: the state of the task-creation job, answered 200.
TaskStatusResult(q, rq_id) ==
    Response("task_status", rq_id, fetch_job(q, rq_id).status, FALSE, 200,
             DictBody(TaskGetRqResponse(q, rq_id)))

TaskStatus(pk) ==
    /\ resp' = TaskStatusResult(Rq, TaskCreateId(pk))
    /\ UNCHANGED <<jobs, queue, now, updated_date, results, tmp_files, open_fds>>
    /\ UNCHANGED <<followed, tasks, datas, dirs, next_data, next_task, saving, pending, sized>>

\* ------------------------------------------------------- the RQ worker

\* TaskViewSet.upload_finished: task.create(db_task.id, data) enqueues the
\* creation of the task's data under "/api/tasks/{pk}".
UploadFinished(pk) ==
    /\ queue[TaskCreateId(pk)] < MaxQueue
    /\ LET q == enqueue_call(Rq, TaskCreateId(pk), NoMeta, "default") IN
          /\ jobs' = q.jobs
          /\ queue' = q.queue
    /\ UNCHANGED <<now, updated_date, results, tmp_files, open_fds, resp>>
    /\ UNCHANGED <<followed, tasks, datas, dirs, next_data, next_task, saving, pending, sized>>

\* A worker takes an entry from the queue and starts the job it names.
WorkerStart(rq_id) ==
    /\ queue[rq_id] > 0
    /\ queue' = [queue EXCEPT ![rq_id] = @ - 1]
    /\ jobs' = IF is_queued(jobs[rq_id])
               THEN [jobs EXCEPT ![rq_id].status = "started"]
               ELSE jobs
    /\ UNCHANGED <<now, updated_date, results, tmp_files, open_fds, resp>>
    /\ UNCHANGED <<followed, tasks, datas, dirs, next_data, next_task, saving, pending, sized>>

\* The job's function returns: an export has written its result file and
\* returns the path.
WorkerFinish(rq_id) ==
    /\ jobs[rq_id].status = "started"
    /\ jobs' = [jobs EXCEPT ![rq_id].status = "finished",
                            ![rq_id].return_value =
                                IF rq_id \in ExportIds THEN rq_id ELSE NoValue]
    /\ results' = IF rq_id \in ExportIds THEN results \cup {rq_id} ELSE results
    /\ UNCHANGED <<queue, now, updated_date, tmp_files, open_fds, resp>>
    /\ UNCHANGED <<followed, tasks, datas, dirs, next_data, next_task, saving, pending, sized>>

\* The job's function raises: rq_handler stores the exception text.
WorkerFail(rq_id, exc_info) ==
    /\ jobs[rq_id].status = "started"
    /\ jobs' = [jobs EXCEPT ![rq_id].status = "failed",
                            ![rq_id].exc_info = exc_info]
    /\ UNCHANGED <<queue, now, updated_date, results, tmp_files, open_fds, resp>>
    /\ UNCHANGED <<followed, tasks, datas, dirs, next_data, next_task, saving, pending, sized>>

\* result_ttl / failure_ttl of an export job run out: the queue forgets it.
ExpireJob(rq_id) ==
    /\ rq_id \in ExportIds
    /\ jobs[rq_id].status \in {"finished", "failed"}
    /\ jobs' = [jobs EXCEPT ![rq_id] = NoJob]
    /\ UNCHANGED <<queue, now, updated_date, results, tmp_files, open_fds, resp>>
    /\ UNCHANGED <<followed, tasks, datas, dirs, next_data, next_task, saving, pending, sized>>

\* The export cache loses a result file.
RemoveResult(rq_id) ==
    /\ rq_id \in results
    /\ results' = results \ {rq_id}
    /\ UNCHANGED <<jobs, queue, now, updated_date, tmp_files, open_fds, resp>>
    /\ UNCHANGED <<followed, tasks, datas, dirs, next_data, next_task, saving, pending, sized>>

\* --------------------------------------------------- time and the database

Tick ==
    /\ now < MaxTime
    /\ now' = now + 1
    /\ UNCHANGED <<jobs, queue, updated_date, results, tmp_files, open_fds, resp>>
    /\ UNCHANGED <<followed, tasks, datas, dirs, next_data, next_task, saving, pending, sized>>

\* TaskViewSet.perform_update: the task is saved, then its project.
TaskPerformUpdate ==
    /\ updated_date' = [updated_date EXCEPT ![Task1] = now, ![Project1] = now]
    /\ UNCHANGED <<jobs, queue, now, results, tmp_files, open_fds, resp>>
    /\ UNCHANGED <<followed, tasks, datas, dirs, next_data, next_task, saving, pending, sized>>

\* ProjectViewSet partial_update: the project is saved.
ProjectPartialUpdate ==
    /\ updated_date' = [updated_date EXCEPT ![Project1] = now]
    /\ UNCHANGED <<jobs, queue, now, results, tmp_files, open_fds, resp>>
    /\ UNCHANGED <<followed, tasks, datas, dirs, next_data, next_task, saving, pending, sized>>

\* ------------------------------------------------------ tasks and data


\* instance.get_task_dirname(), data.get_data_dirname()
TaskDir(t) == [kind |-> "task", id |-> t]

DataDir(d) == [kind |-> "data", id |-> d]

\* instance.data.tasks.all(): the tasks that reference Data d in a table.
TasksOfData(table, d) == { t \in DOMAIN table : table[t].data = d }

\* TaskViewSet.perform_create: the task is saved without data; its
\* project, if any, is saved.
TaskPerformCreate(in_project) ==
    /\ next_task <= MaxTasks
    /\ tasks' = [x \in DOMAIN tasks \cup {next_task} |->
                    IF x = next_task THEN [data |-> 0, project |-> in_project]
                    ELSE tasks[x]]
    /\ dirs' = dirs \cup {TaskDir(next_task)}
    /\ next_task' = next_task + 1
    /\ updated_date' = IF in_project
                       THEN [updated_date EXCEPT ![Project1] = now]
                       ELSE updated_date
    /\ UNCHANGED <<datas, next_data>>
    /\ UNCHANGED <<jobs, queue, now, results, tmp_files, open_fds, resp, followed, saving, pending, sized>>

\* TaskDataResult that never looks at the size of the task's data.
TaskDataIgnoresSize(table, nonzero, t) ==
    IF table[t].data = 0
    THEN [create |-> TRUE,
          resp |-> [Response("task_data", NoValue, "nodata", FALSE, 202, NoText)
                       EXCEPT !.calls = <<"upload_data">>]]
    ELSE [create |-> FALSE,
          resp |-> [Response("task_data", NoValue, "empty", FALSE, 202, NoText)
                       EXCEPT !.calls = <<"upload_data">>]]

\* TaskViewSet.data, POST: whether a Data record is created and what is
\* answered, from the task's data and the set of the Data records of
\* non-zero size.  upload_data(request) is recorded as a call; 202 is the
\* answer of upload_finished.
TaskDataResult(table, nonzero, t) ==
    IF table[t].data = 0
    THEN [create |-> TRUE,
          resp |-> [Response("task_data", NoValue, "nodata", FALSE, 202, NoText)
                       EXCEPT !.calls = <<"upload_data">>]]
    ELSE IF table[t].data \in nonzero
    THEN [create |-> FALSE,
          resp |-> Response("task_data", NoValue, "sized", FALSE, 400,
                            <<"Adding more data is not supported">>)]
    ELSE [create |-> FALSE,
          resp |-> [Response("task_data", NoValue, "empty", FALSE, 202, NoText)
                       EXCEPT !.calls = <<"upload_data">>]]

\* TaskViewSet.data, POST or OPTIONS: for a task without data a Data record
\* is created with its directories and linked to the task.
TaskData(t) ==
    LET r == TaskDataResult(tasks, sized, t) IN
    /\ t \in DOMAIN tasks
    /\ IF r.create
       THEN /\ next_data <= MaxData
            /\ datas' = datas \cup {next_data}
            /\ dirs' = dirs \cup {DataDir(next_data)}
            /\ tasks' = [tasks EXCEPT ![t].data = next_data]
            /\ next_data' = next_data + 1
       ELSE UNCHANGED <<tasks, datas, dirs, next_data>>
    /\ resp' = [r.resp EXCEPT !.args = <<t>>]
    /\ UNCHANGED <<next_task, sized>>
    /\ UNCHANGED <<jobs, queue, now, updated_date, results, tmp_files, open_fds>>
    /\ UNCHANGED <<followed, saving, pending>>

\* The creation of the task's data stores the media: the size of the Data
\* record is written.
DataSizeWritten(d) ==
    /\ d \in datas \ sized
    /\ sized' = sized \cup {d}
    /\ UNCHANGED <<tasks, datas, dirs, next_data, next_task>>
    /\ UNCHANGED jobVars

\* DestroyData without the look at the remaining tasks.
DestroyDataOfAnyTask(table, d) ==
    IF d # 0
    THEN [datas |-> datas \ {d}, dirs |-> dirs \ {DataDir(d)}]
    ELSE [datas |-> datas, dirs |-> dirs]

\* The Data table and the directories after perform_destroy has looked at
\* the destroyed task's data: removed when no task of the table left
\* references it.
DestroyData(table, d) ==
    IF d # 0 /\ TasksOfData(table, d) = {}
    THEN [datas |-> datas \ {d}, dirs |-> dirs \ {DataDir(d)}]
    ELSE [datas |-> datas, dirs |-> dirs]

\* TaskViewSet.perform_destroy(instance)
TaskPerformDestroy(t) ==
    /\ t \in DOMAIN tasks
    /\ LET table == [x \in DOMAIN tasks \ {t} |-> tasks[x]]
           left == DestroyData(table, tasks[t].data)
       IN /\ tasks' = table
          /\ datas' = left.datas
          /\ dirs' = left.dirs \ {TaskDir(t)}
          /\ sized' = sized \cap left.datas
    /\ updated_date' = IF tasks[t].project
                       THEN [updated_date EXCEPT ![Project1] = now]
                       ELSE updated_date
    /\ UNCHANGED <<next_data, next_task>>
    /\ UNCHANGED <<jobs, queue, now, results, tmp_files, open_fds, resp, followed, saving, pending>>

\* ------------------------------------------------------------- listing

\* The endpoints whose list action is modelled.
Endpoints == {"projects", "tasks", "users"}

\* The queryset attribute of the view set: the primary keys of the rows
\* stored for the resource.
Queryset(endpoint) ==
    CASE endpoint = "projects" -> {1}
      [] endpoint = "tasks" -> DOMAIN tasks
      [] endpoint = "users" -> Users

\* perm.filter(queryset): an administrator is shown every object.
PermFilter(user, queryset) ==
    IF user = "admin1" THEN queryset ELSE {}

\* get_queryset with the filter of the detail actions applied to the list.
get_querysetOfNobody(view_action, user, queryset) ==
    IF view_action = "list" THEN PermFilter("nobody", queryset) ELSE queryset

\* get_queryset(self)
get_queryset(view_action, user, queryset) ==
    IF view_action = "list" THEN PermFilter(user, queryset) ELSE queryset

\* GET on a resource endpoint with page_size='all': the list action of the
\* view set answers with every object of get_queryset().
List(endpoint, user) ==
    /\ resp' = [Response("list", NoValue, "unfetched", FALSE, 200,
                          get_queryset("list", user, Queryset(endpoint)))
                   EXCEPT !.args = <<endpoint, user>>]
    /\ UNCHANGED <<jobs, queue, now, updated_date, results, tmp_files, open_fds>>
    /\ UNCHANGED <<followed, tasks, datas, dirs, next_data, next_task, saving, pending, sized>>

\* -------------------------------------------------------- DataChunkGetter

\* A query parameter: absent from the request, or present with a text (the
\* characters or words of its value; the empty text for "?number=").
Missing == [present |-> FALSE, text |-> << >>]

Given(text) == [present |-> TRUE, text |-> text]

\* request.query_params.get(key, default)
QueryGet(param, default) == IF param.present THEN param ELSE default

\* Python's "not x" for a parameter value: None and '' are false.
Not(param) == ~param.present \/ param.text = << >>

possible_data_type_values ==
    { <<"chunk">>, <<"frame">>, <<"preview">>, <<"context_image">> }

possible_quality_values == { <<"compressed">>, <<"original">> }

DigitChars == <<"0", "1", "2", "3", "4", "5", "6", "7", "8", "9">>

\* int(text) succeeds: the text is a run of decimal digits.
IsIntLiteral(text) ==
    /\ Len(text) >= 1
    /\ \A k \in 1..Len(text) : \E n \in 1..10 : DigitChars[n] = text[k]

DigitValue(c) == (CHOOSE n \in 1..10 : DigitChars[n] = c) - 1

RECURSIVE IntOf(_)
\* int(text) for a run of decimal digits
IntOf(text) ==
    IF text = << >> THEN 0
    ELSE 10 * IntOf(SubSeq(text, 1, Len(text) - 1)) + DigitValue(text[Len(text)])

\* DataChunkGetter.__init__(data_type, data_num, data_quality, task_dim):
\* the exception it raises, or the fields of the getter.
DataChunkGetterInit(data_type, data_num, data_quality, task_dim) ==
    IF Not(data_type) \/ data_type.text \notin possible_data_type_values
    THEN [raised |-> "ValidationError",
          detail |-> <<"Data type not specified or has wrong value">>]
    ELSE IF data_type.text \in {<<"chunk">>, <<"frame">>} /\ Not(data_num)
    THEN [raised |-> "ValidationError", detail |-> <<"Number is not specified">>]
    ELSE IF /\ data_type.text \in {<<"chunk">>, <<"frame">>}
            /\ data_quality.text \notin possible_quality_values
    THEN [raised |-> "ValidationError", detail |-> <<"Wrong quality value">>]
    ELSE IF ~Not(data_num) /\ ~IsIntLiteral(data_num.text)
    THEN [raised |-> "ValueError", detail |-> <<"invalid literal for int()">>]
    ELSE [raised |-> "", detail |-> NoText,
          type |-> data_type.text,
          number |-> IF Not(data_num) THEN Missing
                     ELSE [present |-> TRUE, value |-> IntOf(data_num.text)],
          quality |-> IF data_quality.text = <<"compressed">>
                      THEN "COMPRESSED" ELSE "ORIGINAL",
          dimension |-> task_dim]

\* DataChunkGetter.__call__(request, start, stop, db_data) for a getter that
\* was constructed.  db_data is the primary key of the Data record (0:
\* None); in_range: the getter's number lies within the range the data has
\* for it.  What is served comes from the frame provider.
DataChunkGetterCall(op, getter, db_data, in_range) ==
    IF db_data = 0
    THEN Response(op, NoValue, "nodata", FALSE, 404, <<"Cannot find requested data">>)
    ELSE IF getter.type = <<"preview">>
    THEN Response(op, NoValue, "data", FALSE, 200, <<"preview">>)
    ELSE IF ~getter.number.present
    THEN Response(op, NoValue, "data", FALSE, 500, <<"TypeError">>)
    ELSE IF ~in_range
    THEN Response(op, NoValue, "data", FALSE, 400, <<"The number should be in range">>)
    ELSE Response(op, NoValue, "data", FALSE, 200, getter.type)

\* The answer to an exception that leaves DataChunkGetter.__init__.
GetterRaised(op, getter) ==
    IF getter.raised = "ValidationError"
    THEN Response(op, NoValue, "unfetched", FALSE, 400, getter.detail)
    ELSE Response(op, NoValue, "unfetched", FALSE, 500, <<getter.raised>>)

\* TaskViewSet.data, GET: the getter is constructed, then
\* db_task.data.start_frame is evaluated for the call: without a Data
\* record the AttributeError leaves the view and the framework answers 500.
TaskDataGetResult(table, t, data_type, data_num, data_quality, in_range) ==
    LET getter == DataChunkGetterInit(data_type, data_num,
                      QueryGet(data_quality, Given(<<"compressed">>)), "2d")
    IN IF getter.raised # "" THEN GetterRaised("task_data_get", getter)
       ELSE IF table[t].data = 0
       THEN Response("task_data_get", NoValue, "nodata", FALSE, 500, <<"AttributeError">>)
       ELSE DataChunkGetterCall("task_data_get", getter, table[t].data, in_range)

\* JobViewSet.data for a job of task t: db_job.segment.task.data is handed
\* to the getter as it is.
JobDataGetResult(table, t, data_type, data_num, data_quality, in_range) ==
    LET getter == DataChunkGetterInit(data_type, data_num,
                      QueryGet(data_quality, Given(<<"compressed">>)), "2d")
    IN IF getter.raised # "" THEN GetterRaised("job_data_get", getter)
       ELSE DataChunkGetterCall("job_data_get", getter, table[t].data, in_range)

TaskDataGet(t, data_type, data_num, data_quality, in_range) ==
    /\ t \in DOMAIN tasks
    /\ resp' = [TaskDataGetResult(tasks, t, data_type, data_num, data_quality, in_range)
                   EXCEPT !.args = <<t, data_type, data_num, data_quality>>]
    /\ UNCHANGED <<jobs, queue, now, updated_date, results, tmp_files, open_fds>>
    /\ UNCHANGED <<followed, tasks, datas, dirs, next_data, next_task, saving, pending, sized>>

\* The jobs of a task exist once the task's data was created.
JobDataGet(t, data_type, data_num, data_quality, in_range) ==
    /\ t \in DOMAIN tasks
    /\ tasks[t].data \in sized
    /\ resp' = [JobDataGetResult(tasks, t, data_type, data_num, data_quality, in_range)
                   EXCEPT !.args = <<t, data_type, data_num, data_quality>>]
    /\ UNCHANGED <<jobs, queue, now, updated_date, results, tmp_files, open_fds>>
    /\ UNCHANGED <<followed, tasks, datas, dirs, next_data, next_task, saving, pending, sized>>

\* ------------------------------------------------------- specifications

\* Export jobs for the enabled format: the ones the queue can hold.
LiveExportIds ==
    { ProjectExportId("1", "CVAT"), ProjectAnnotationsId("1", "CVAT"),
      TaskExportId("1", "CVAT"), TaskDatasetId("1", "CVAT") }

\* A finished export job left by a deployment that recorded no
\* request_time in its meta.
LegacyJob(rq_id) ==
    [status |-> "finished", meta |-> NoMeta, exc_info |-> NoText,
     return_value |-> rq_id,
     result_ttl |-> "legacy", failure_ttl |-> "legacy"]

NoResponse ==
    [seq |-> 0, op |-> "none", rq_id |-> NoValue, args |-> << >>, found |-> "unfetched",
     stale |-> FALSE, status |-> 0, body |-> NoText, calls |-> << >>]

InitJobs ==
    /\ followed \in RqIds
    /\ now \in 0..MaxTime
    /\ updated_date \in [Instances -> 0..now]
    /\ \E legacy \in SUBSET (LiveExportIds \cap {followed}) :
          /\ jobs = [i \in RqIds |-> IF i \in legacy THEN LegacyJob(i) ELSE NoJob]
          /\ results = legacy
    /\ queue = [i \in RqIds |-> 0]
    /\ tmp_files = {}
    /\ open_fds = {}
    /\ resp = NoResponse
    /\ saving = NoSaving
    /\ pending = {}

\* The database holds two tasks; each has no data, data of its own, or
\* shares the Data record of the other.
InitTasks ==
    /\ tasks \in [{1, 2} -> [data : 0..2, project : BOOLEAN]]
    /\ datas = { tasks[t].data : t \in DOMAIN tasks } \ {0}
    /\ dirs = { TaskDir(t) : t \in DOMAIN tasks } \cup { DataDir(d) : d \in datas }
    /\ next_data = 3
    /\ next_task = 3
    /\ sized \in SUBSET datas

\* The views touch no job but the one their rq_id names (fetch_job(rq_id),
\* rq_job.cancel(), rq_job.delete(), enqueue_call(job_id=rq_id)), so jobs
\* under different identifiers do not influence each other: a behaviour
\* follows the requests that address one identifier, chosen in Init.
Requests ==
    \/ \E f \in FormatNames, a \in ActionNames :
          /\ followed = ProjectExportId("1", f)
          /\ ProjectDatasetExport("1", f, a)
    \/ \E f \in FormatNames, a \in ActionNames :
          /\ followed = ProjectAnnotationsId("1", f)
          /\ ProjectAnnotations("1", f, a)
    \/ \E f \in FormatNames, a \in ActionNames :
          /\ followed = ProjectAnnotationsId("1", f)
          /\ ProjectAnnotations("1", "", a)
    \/ \E f \in FormatNames, a \in ActionNames :
          /\ followed = TaskExportId("1", f)
          /\ TaskAnnotationsExport("1", f, a)
    \/ \E f \in FormatNames, a \in ActionNames :
          /\ followed = TaskDatasetId("1", f)
          /\ TaskDatasetExport("1", f, a)
    \/ \E u \in Users, f \in FormatNames, v \in BOOLEAN :
          /\ followed = TaskUploadId(u, "1")
          /\ TaskAnnotationsUpload(u, "1", f, v)
    \/ \E u \in Users, f \in FormatNames, v \in BOOLEAN :
          /\ followed = JobUploadId(u, "1")
          /\ JobAnnotationsUpload(u, "1", f, v)
    \/ \E f \in FormatNames, v \in BOOLEAN :
          /\ followed = ProjectImportId("1")
          /\ ProjectDatasetImport("1", f, v)
    \/ followed = ProjectImportId("1") /\ ProjectImportStatus("1")
    \/ followed = TaskCreateId("1") /\ TaskStatus("1")

Environment ==
    \/ followed = TaskCreateId("1") /\ UploadFinished("1")
    \/ \E i \in RqIds : WorkerStart(i)
    \/ \E i \in RqIds : WorkerFinish(i)
    \/ \E i \in RqIds, e \in ExcInfos : WorkerFail(i, e)
    \/ \E i \in RqIds : ExpireJob(i)
    \/ \E i \in RqIds : RemoveResult(i)
    \/ Tick
    \/ TaskPerformUpdate
    \/ ProjectPartialUpdate

Next == Requests \/ Environment

\* The job handling, over a database whose Task table is left alone.
Init ==
    /\ InitJobs
    /\ tasks = [t \in {1} |-> [data |-> 0, project |-> TRUE]]
    /\ datas = {}
    /\ dirs = {TaskDir(1)}
    /\ next_data = 1
    /\ next_task = 2
    /\ sized = {}

Spec == Init /\ [][Next]_vars

NextTasks ==
    \/ \E p \in BOOLEAN : TaskPerformCreate(p)
    \/ \E t \in 1..MaxTasks : TaskData(t)
    \/ \E d \in 1..MaxData : DataSizeWritten(d)
    \/ \E t \in 1..MaxTasks : TaskPerformDestroy(t)
    \/ \E e \in Endpoints, u \in Users : List(e, u)

\* The Task and Data tables, with an idle queue.
InitTasksOnly ==
    /\ InitTasks
    /\ followed = TaskCreateId("1")
    /\ now = 0
    /\ updated_date = [i \in Instances |-> 0]
    /\ jobs = [i \in RqIds |-> NoJob]
    /\ queue = [i \in RqIds |-> 0]
    /\ results = {}
    /\ tmp_files = {}
    /\ open_fds = {}
    /\ resp = NoResponse
    /\ saving = NoSaving
    /\ pending = {}

SpecTasks == InitTasksOnly /\ [][NextTasks]_vars

\* Upload requests of one user for one target while the worker runs: the
\* request that enqueues the job saves the meta in a step of its own.
NextUploads ==
    \/ \E f \in FormatNames, v \in BOOLEAN : UploadBegin(followed, f, v)
    \/ UploadSaveMeta
    \/ WorkerStart(followed)
    \/ WorkerFinish(followed)
    \/ \E e \in ExcInfos : WorkerFail(followed, e)

InitUploads == Init /\ followed \in UploadIds

SpecUploads == InitUploads /\ [][NextUploads]_vars

\* The requests that are handled at the same time.
Slots == 1..MaxRequests

\* Export requests for one identifier handled at the same time while the
\* worker runs: a request that fetches no job enqueues in a step of its own.
NextExports ==
    \/ \E n \in Slots, f \in FormatNames, a \in ActionNames :
          /\ followed = TaskExportId("1", f)
          /\ ExportBegin(n, Task1, followed, f, a)
    \/ \E n \in Slots, f \in FormatNames, a \in ActionNames :
          /\ followed = ProjectExportId("1", f)
          /\ ExportBegin(n, Project1, followed, f, a)
    \/ \E n \in Slots : ExportEnd(n)
    \/ WorkerStart(followed)
    \/ WorkerFinish(followed)
    \/ Tick

InitExports ==
    /\ Init
    /\ followed \in { TaskExportId("1", f) : f \in FormatNames } \cup
                    { ProjectExportId("1", f) : f \in FormatNames }

SpecExports == InitExports /\ [][NextExports]_vars

\* The values of the type parameter that requests are drawn from.
TypeArgs ==
    { Missing, Given(<< >>), Given(<<"bogus">>) } \cup
    { Given(v) : v \in possible_data_type_values }

\* The values of the number parameter: absent, empty, integers, a decimal
\* fraction, a word.
NumberArgs ==
    { Missing, Given(<< >>), Given(<<"0">>), Given(<<"1", "2">>),
      Given(<<"1", ".", "5">>), Given(<<"a", "b">>) }

QualityArgs ==
    { Missing, Given(<< >>), Given(<<"bogus">>) } \cup
    { Given(v) : v \in possible_quality_values }

\* GET data requests for a task and its jobs, while the task gets its data.
NextData ==
    \/ \E t \in 1..MaxTasks, ty \in TypeArgs, n \in NumberArgs,
          ql \in QualityArgs, r \in BOOLEAN : TaskDataGet(t, ty, n, ql, r)
    \/ \E t \in 1..MaxTasks, ty \in TypeArgs, n \in NumberArgs,
          ql \in QualityArgs, r \in BOOLEAN : JobDataGet(t, ty, n, ql, r)
    \/ \E t \in 1..MaxTasks : TaskData(t)
    \/ \E d \in 1..MaxData : DataSizeWritten(d)

\* One task without data and an idle queue.
InitData ==
    /\ Init
    /\ followed = TaskCreateId("1")
    /\ now = 0

SpecData == InitData /\ [][NextData]_vars

\* ---------------------------------------------------------- properties

\* A step that handles a request.
RequestStep == resp'.seq # resp.seq

\* A step in which _export_annotations handles a request for rq_id.
ExportStep(rq_id) ==
    RequestStep /\ resp'.op = "export" /\ resp'.rq_id = rq_id

\* The request of the step passes the validation of _export_annotations:
\* its action is empty or "download", its format registered and enabled.
ExportArgsValid ==
    /\ resp'.args[2] \in {"", "download"}
    /\ \E f \in ExportFormats : f.DISPLAY_NAME = resp'.args[1] /\ f.enabled

\* The last update of the instance an export identifier belongs to: for
\* the project the latest of its own and its task's updated_date.
LastUpdateOf(rq_id) ==
    IF rq_id.path[2] \in {"project", "projects"}
    THEN IF updated_date[Task1] > updated_date[Project1]
         THEN updated_date[Task1] ELSE updated_date[Project1]
    ELSE updated_date[Task1]

\* The job stored under rq_id records no request_time, or one earlier than
\* the last update of its instance.
OutOfDate(rq_id) ==
    \/ "request_time" \notin DOMAIN jobs[rq_id].meta
    \/ jobs[rq_id].meta.request_time < LastUpdateOf(rq_id)

\* After the step exactly one job is enqueued under rq_id, and it is a new
\* one: queued, requested now.
ReplacedByNewJob(rq_id) ==
    /\ jobs'[rq_id].status = "queued"
    /\ jobs'[rq_id].meta = [request_time |-> now]
    /\ queue'[rq_id] = 1

\* C1 as stated: whenever _export_annotations handles a request while a job
\* that is out of date is stored under the request's identifier, the old
\* job is gone, a new job is enqueued under the identifier and the
\* response is 202.
C1_AsStated ==
    [][\A i \in ExportIds :
          ExportStep(i) /\ jobs[i] # NoJob /\ OutOfDate(i)
              => resp'.status = 202 /\ ReplacedByNewJob(i)]_vars

\* C1 amended: the same for a request that passes validation (action empty
\* or "download", format registered and enabled), whatever state the old
\* job was in.
C1_StaleJobReplaced ==
    [][\A i \in ExportIds :
          ExportStep(i) /\ ExportArgsValid /\ jobs[i] # NoJob /\ OutOfDate(i)
              => resp'.status = 202 /\ ReplacedByNewJob(i)]_vars

\* C1 witness: a project export found its job started and out of date and
\* replaced it.
C1_Witness ==
    /\ resp.op = "export" /\ resp.rq_id = ProjectExportId("1", "CVAT")
    /\ resp.found = "started" /\ resp.stale /\ resp.status = 202
    /\ jobs[resp.rq_id].status = "queued"
    /\ queue[resp.rq_id] = 1

\* The step enqueues a job under rq_id.
Enqueues(rq_id) ==
    \/ queue'[rq_id] > queue[rq_id]
    \/ jobs'[rq_id] # jobs[rq_id] /\ jobs'[rq_id].status = "queued"

\* The queue holds at most one entry under each export identifier.
OneEntryPerExport == \A i \in ExportIds : queue[i] <= 1

\* A valid export request that finds its job queued or started and up to
\* date answers 202 and leaves the queue as it is.
RunningExportIsLeftAlone ==
    \A i \in ExportIds :
        /\ ExportStep(i) /\ ExportArgsValid
        /\ jobs[i].status \in {"queued", "started"} /\ ~OutOfDate(i)
        => resp'.status = 202 /\ jobs' = jobs /\ queue' = queue

\* C2 as stated: a request that finds the job queued or started answers 202
\* and enqueues nothing, the queue never holds two entries under one
\* export identifier, and a request starts an export only when no job is
\* stored (none yet, downloaded, failure reported) or the resource changed.
C2_AsStated ==
    /\ []OneEntryPerExport
    /\ [][/\ RunningExportIsLeftAlone
          /\ \A i \in ExportIds :
                ExportStep(i) /\ Enqueues(i) => jobs[i] = NoJob \/ OutOfDate(i)]_vars

\* C2 amended: as stated, except that a request also starts the export
\* again when it finds the job finished and its result file gone.
C2_OneExportAtATime ==
    /\ []OneEntryPerExport
    /\ [][/\ RunningExportIsLeftAlone
          /\ \A i \in ExportIds :
                ExportStep(i) /\ Enqueues(i)
                    => \/ jobs[i] = NoJob
                       \/ OutOfDate(i)
                       \/ /\ jobs[i].status = "finished"
                          /\ jobs[i].return_value \notin results]_vars

\* C2 witness: an export request found its job queued and answered 202 with
\* the one entry still in the queue.
C2_Witness ==
    /\ resp.op = "export" /\ resp.found = "queued" /\ ~resp.stale
    /\ resp.status = 202
    /\ jobs[resp.rq_id].status = "queued"
    /\ queue[resp.rq_id] = 1

\* The step destroys task t.
DestroyStep(t) == t \in DOMAIN tasks /\ t \notin DOMAIN tasks'

\* Some task of the table after the step references Data d.
StillReferenced(d) == \E x \in DOMAIN tasks' : tasks'[x].data = d

\* C3: perform_destroy removes the task's Data record and data directory
\* if and only if no remaining task references the Data; in every state a
\* Data referenced by a task exists with its directory, and no Data record
\* or data directory is left whose last referencing task was destroyed.
C3_DataLivesWithItsTasks ==
    /\ [](\A t \in DOMAIN tasks :
            tasks[t].data # 0
                => tasks[t].data \in datas /\ DataDir(tasks[t].data) \in dirs)
    /\ [](\A d \in 1..MaxData :
            (d \in datas \/ DataDir(d) \in dirs)
                => \E t \in DOMAIN tasks : tasks[t].data = d)
    /\ [][\A t \in 1..MaxTasks :
            DestroyStep(t) /\ tasks[t].data # 0
                => /\ tasks[t].data \in datas' <=> StillReferenced(tasks[t].data)
                   /\ DataDir(tasks[t].data) \in dirs' <=> StillReferenced(tasks[t].data)
                   /\ TaskDir(t) \notin dirs']_vars

\* C3 witness: task 1 was destroyed and the Data it shared with task 2 is
\* still there with its directory.
C3_Witness ==
    /\ 1 \notin DOMAIN tasks
    /\ 2 \in DOMAIN tasks /\ tasks[2].data = 1
    /\ 1 \in datas /\ DataDir(1) \in dirs

\* The identifiers of the import jobs: annotation upload, dataset import.
ImportIds == UploadIds \cup {ProjectImportId("1")}

\* The request of the step names a registered, enabled import format.
ImportFormatEnabled ==
    \E f \in ImportFormats : f.DISPLAY_NAME = resp'.args[1] /\ f.enabled

\* The request of the step names a format that no registered format has as
\* its display name.
FormatNotRegistered(formats) ==
    \A f \in formats : f.DISPLAY_NAME # resp'.args[1]

\* The request of the step names a format that is registered and disabled.
FormatSwitchedOff(formats) ==
    \E f \in formats : f.DISPLAY_NAME = resp'.args[1] /\ ~f.enabled

\* The step leaves the queue and the temporary files as they are.
QueueAndFilesUntouched ==
    /\ jobs' = jobs /\ queue' = queue
    /\ tmp_files' = tmp_files /\ open_fds' = open_fds

\* C4 as stated: an export or import request whose format name matches no
\* registered format is answered 405.
C4_AsStated ==
    [][RequestStep =>
          /\ resp'.op = "export" /\ FormatNotRegistered(ExportFormats)
                => resp'.status = 405
          /\ resp'.op \in {"upload", "import_project"} /\ FormatNotRegistered(ImportFormats)
                => resp'.status = 405]_vars

\* C4 amended: such a request is answered 400, the answer to a validation
\* error, and the queue and the files stay as they are.
C4_UnknownFormatIs400 ==
    [][RequestStep =>
          /\ resp'.op = "export" /\ FormatNotRegistered(ExportFormats)
                => resp'.status = 400 /\ QueueAndFilesUntouched
          /\ resp'.op \in {"upload", "import_project"} /\ FormatNotRegistered(ImportFormats)
                => resp'.status = 400 /\ QueueAndFilesUntouched]_vars

\* C4 witness: an export request for an unregistered format got 400.
C4_Witness ==
    /\ resp.op = "export" /\ resp.args = <<"Nope", "download">>
    /\ resp.status = 400
    /\ jobs[resp.rq_id] = NoJob

\* C5 as stated: an export or import request whose format is registered
\* but disabled is answered 405 and leaves the queue and the files alone.
C5_AsStated ==
    [][RequestStep =>
          /\ resp'.op = "export" /\ FormatSwitchedOff(ExportFormats)
                => resp'.status = 405 /\ QueueAndFilesUntouched
          /\ resp'.op \in {"upload", "import_project"} /\ FormatSwitchedOff(ImportFormats)
                => resp'.status = 405 /\ QueueAndFilesUntouched]_vars

\* C5 amended: the same for import requests and for export requests whose
\* action is empty or "download"; an export request with another action is
\* answered 400 before its format is looked at.  In both cases the queue
\* and the files stay as they are.
C5_DisabledFormatIs405 ==
    [][RequestStep =>
          /\ resp'.op = "export" /\ FormatSwitchedOff(ExportFormats)
                => /\ resp'.status = (IF resp'.args[2] \in {"", "download"} THEN 405 ELSE 400)
                   /\ QueueAndFilesUntouched
          /\ resp'.op \in {"upload", "import_project"} /\ FormatSwitchedOff(ImportFormats)
                => resp'.status = 405 /\ QueueAndFilesUntouched]_vars

\* C5 witness: an upload request for the disabled format got 405 while a
\* job was stored under its identifier, and the job is still there.
C5_Witness ==
    /\ resp.op = "upload" /\ resp.args[1] = "Legacy"
    /\ resp.status = 405
    /\ jobs[resp.rq_id].status = "finished"
    /\ tmp_files # {}

\* The step relays a failed import job stored under rq_id: an upload
\* request with an enabled format, or an import_status request.
RelaysFailedImport(rq_id) ==
    /\ RequestStep /\ resp'.rq_id = rq_id
    /\ jobs[rq_id].status = "failed"
    /\ \/ resp'.op = "upload" /\ ImportFormatEnabled
       \/ resp'.op = "import_status"

\* The positions of a text that belong to no "<CvatImportError>: ".
KeptPositions(text) ==
    { i \in 1..Len(text) :
        /\ ~(i < Len(text) /\ text[i] = ImportErrorPrefix /\ text[i + 1] = ": ")
        /\ ~(i > 1 /\ text[i - 1] = ImportErrorPrefix /\ text[i] = ": ") }

\* The text without its occurrences of "<CvatImportError>: ".
WithoutImportError(text) ==
    LET kept == KeptPositions(text)
        nth(j) == CHOOSE i \in kept : Cardinality({ k \in kept : k <= i }) = j
    IN [j \in 1..Cardinality(kept) |-> text[nth(j)]]

\* C6 as stated: a request that relays a failed import job answers 400 with
\* the job's exception text as body.
C6_AsStated ==
    [][\A i \in ImportIds :
          RelaysFailedImport(i)
              => resp'.status = 400 /\ resp'.body = jobs[i].exc_info]_vars

\* C6 amended: an annotation upload answers 400 when the exception text
\* starts with the CvatImportError class name, the body being the text with
\* "<class name>: " removed, and 500 with the text as it is otherwise;
\* import_status answers 500 with the text as it is.
C6_ImportFailureRelayed ==
    [][\A i \in ImportIds :
          RelaysFailedImport(i)
              => IF resp'.op = "upload" /\ jobs[i].exc_info[1] = ImportErrorPrefix
                 THEN /\ resp'.status = 400
                      /\ resp'.body = WithoutImportError(jobs[i].exc_info)
                 ELSE /\ resp'.status = 500
                      /\ resp'.body = jobs[i].exc_info]_vars

\* C6 witness: an upload request relayed a CvatImportError as 400.
C6_Witness ==
    /\ resp.op = "upload" /\ resp.found = "failed"
    /\ resp.status = 400
    /\ resp.body = <<"outer", "inner">>

\* C7: a valid export request that finds its job failed and up to date
\* answers 500 with the job's exception text, deletes the job and enqueues
\* nothing.
C7_FailedExportReported ==
    [][\A i \in ExportIds :
          /\ ExportStep(i) /\ ExportArgsValid
          /\ jobs[i].status = "failed" /\ ~OutOfDate(i)
          => /\ resp'.status = 500
             /\ resp'.body = jobs[i].exc_info
             /\ jobs'[i] = NoJob
             /\ queue'[i] = 0]_vars

\* C7 witness: an export request found a failed job, answered 500 with the
\* text and left no job behind.
C7_Witness ==
    /\ resp.op = "export" /\ resp.found = "failed" /\ ~resp.stale
    /\ resp.status = 500 /\ resp.body = <<"ValueError", ": ", "boom">>
    /\ jobs[resp.rq_id] = NoJob
    /\ queue[resp.rq_id] = 0

\* The response of the step reports the failure of the job stored under
\* rq_id: an error status with the job's exception text.
ReportsFailure(rq_id) ==
    /\ resp'.status \in {400, 500}
    /\ \/ resp'.body = jobs[rq_id].exc_info
       \/ resp'.body = WithoutImportError(jobs[rq_id].exc_info)

\* C8 as stated: every request that reaches a failed export or import job
\* under its identifier reports the failure, and none puts a new job in its
\* place without reporting it.
C8_AsStated ==
    [][\A i \in ExportIds \cup ImportIds :
          RequestStep /\ resp'.rq_id = i /\ jobs[i].status = "failed"
                      /\ resp'.found # "unfetched"
              => /\ ReportsFailure(i)
                 /\ ~Enqueues(i)]_vars

\* C8 amended: a failed job is reported, deleted and not replaced by the
\* request that relays it: a valid export request unless the job is out of
\* date, an upload request with an enabled format, an import_status
\* request.  A valid export request that finds the failed job out of date
\* replaces it with a new job and answers 202 without reporting it.  Every
\* other request (failed validation, disabled format, dataset-import POST)
\* leaves the failed job where it is.
C8_FailureReportedUnlessStale ==
    [][\A i \in ExportIds \cup ImportIds :
          RequestStep /\ resp'.rq_id = i /\ jobs[i].status = "failed"
              => IF resp'.op = "export" /\ ExportArgsValid
                 THEN IF OutOfDate(i)
                      THEN resp'.status = 202 /\ ReplacedByNewJob(i)
                      ELSE ReportsFailure(i) /\ jobs'[i] = NoJob /\ queue'[i] = 0
                 ELSE IF \/ resp'.op = "upload" /\ ImportFormatEnabled
                         \/ resp'.op = "import_status"
                 THEN ReportsFailure(i) /\ jobs'[i] = NoJob /\ queue'[i] = 0
                 ELSE jobs'[i] = jobs[i] /\ queue'[i] = queue[i] /\ ~ReportsFailure(i)]_vars

\* C8 witness: an export request found a failed job out of date and put a
\* new job in its place, answering 202.
C8_Witness ==
    /\ resp.op = "export" /\ resp.found = "failed" /\ resp.stale
    /\ resp.status = 202
    /\ jobs[resp.rq_id].status = "queued"

\* The step asks for the status of a job that the queue does not hold.
StatusOfAbsentJob(op) ==
    RequestStep /\ resp'.op = op /\ jobs[resp'.rq_id] = NoJob

\* C9 as stated: a status request for an identifier under which the queue
\* holds no job is answered 404.
C9_AsStated ==
    [][/\ StatusOfAbsentJob("import_status") => resp'.status = 404
       /\ StatusOfAbsentJob("task_status") => resp'.status = 404]_vars

\* C9 amended: import_status is answered 404; the task status action is
\* answered 200 with state "Finished".
C9_AbsentJobStatus ==
    [][/\ StatusOfAbsentJob("import_status")
             => resp'.status = 404 /\ resp'.body = NoText
       /\ StatusOfAbsentJob("task_status")
             => resp'.status = 200 /\ resp'.body = <<"Finished">>]_vars

\* C9 witness: the task status action answered 200 "Finished" with no job
\* in the queue.
C9_Witness ==
    /\ resp.op = "task_status" /\ resp.found = "absent"
    /\ resp.status = 200 /\ resp.body = <<"Finished">>
    /\ jobs[resp.rq_id] = NoJob

ReplacesStaleExport(rq_id) ==
    /\ rq_id \in ExportIds
    /\ ExportStep(rq_id) /\ ExportArgsValid
    /\ OutOfDate(rq_id)

ApiForm(rq_id) ==
    /\ rq_id.prefix = ""
    /\ Len(rq_id.path) >= 4
    /\ rq_id.path[1] = "api"

\* The step is a request that names a job identifier.
NamesJob == RequestStep /\ resp'.rq_id # NoValue

\* C11 as stated: every identifier under which a request enqueues or
\* fetches a job has the form /api/<resource>/<id>/<operation>.
C11_AsStated ==
    [][NamesJob => ApiForm(resp'.rq_id)]_vars

\* C11 amended: export identifiers are /api/<resource>/<id>/<operation>/
\* <format>, the dataset import identifier is /api/project/<id>/
\* dataset_import, upload identifiers are <user>@/api/<resource>/<id>/
\* annotations/upload, and the task creation identifier is /api/tasks/<id>.
C11_IdentifierForms ==
    [][NamesJob =>
          LET id == resp'.rq_id IN
          /\ id.path[1] = "api" /\ id.path[3] = "1"
          /\ resp'.op = "export"
                => /\ id.prefix = "" /\ Len(id.path) = 5
                   /\ <<id.path[2], id.path[4]>> \in
                         { <<"project", "dataset">>, <<"projects", "annotations">>,
                           <<"tasks", "annotations">>, <<"tasks", "dataset">> }
                   /\ id.path[5] = resp'.args[1]
          /\ resp'.op \in {"import_project", "import_status"}
                => /\ id.prefix = ""
                   /\ id.path = <<"api", "project", "1", "dataset_import">>
          /\ resp'.op = "upload"
                => /\ id.prefix \in Users
                   /\ Len(id.path) = 5 /\ id.path[2] \in {"tasks", "jobs"}
                   /\ id.path[4] = "annotations" /\ id.path[5] = "upload"
          /\ resp'.op = "task_status"
                => id.prefix = "" /\ id.path = <<"api", "tasks", "1">>]_vars

\* C11 witness: an upload was enqueued under an identifier that starts
\* with the requesting user.
C11_Witness ==
    /\ resp.op = "upload" /\ resp.found = "absent" /\ resp.status = 202
    /\ resp.rq_id.prefix = "admin1"
    /\ resp.rq_id.path[2] = "tasks"
    /\ jobs[resp.rq_id].status = "queued"

\* The cache TTL of the instance an export identifier belongs to.
TtlOf(rq_id) ==
    IF rq_id.path[2] \in {"project", "projects"}
    THEN "PROJECT_CACHE_TTL" ELSE "TASK_CACHE_TTL"

\* The export job stored under rq_id was enqueued by _export_annotations.
EnqueuedExport(rq_id) ==
    jobs[rq_id] # NoJob /\ "request_time" \in DOMAIN jobs[rq_id].meta

\* C12: every export job a request enqueues carries result_ttl and
\* failure_ttl equal to the project cache TTL for a project and to the task
\* cache TTL otherwise, and its meta records the time of the request as
\* request_time; the job keeps them as long as it is stored.
C12_ExportJobTtl ==
    /\ [](\A i \in ExportIds :
             EnqueuedExport(i)
                 => /\ jobs[i].result_ttl = TtlOf(i)
                    /\ jobs[i].failure_ttl = TtlOf(i)
                    /\ jobs[i].meta.request_time <= now)
    /\ [][\A i \in ExportIds :
             ExportStep(i) /\ Enqueues(i)
                 => /\ jobs'[i].result_ttl = TtlOf(i)
                    /\ jobs'[i].failure_ttl = TtlOf(i)
                    /\ jobs'[i].meta = [request_time |-> now]]_vars

\* C12 witness: a project annotation export was enqueued with the project
\* cache TTL at a time later than 0.
C12_Witness ==
    /\ resp.op = "export" /\ resp.status = 202 /\ resp.found = "absent"
    /\ resp.rq_id = ProjectAnnotationsId("1", "CVAT")
    /\ jobs[resp.rq_id].status = "queued"
    /\ jobs[resp.rq_id].result_ttl = "PROJECT_CACHE_TTL"
    /\ jobs[resp.rq_id].failure_ttl = "PROJECT_CACHE_TTL"
    /\ jobs[resp.rq_id].meta.request_time = 1

\* The step is a list request on the endpoint.
ListStep(endpoint) ==
    RequestStep /\ resp'.op = "list" /\ resp'.args[1] = endpoint

\* The objects stored for the resource of the endpoint.
Stored(endpoint) ==
    IF endpoint = "tasks" THEN DOMAIN tasks
    ELSE IF endpoint = "projects" THEN {1}
    ELSE {"admin1"}

C14_AsStated ==
    [][RequestStep /\ resp'.op = "project_annotations" /\ resp'.args[1] = ""
          => /\ resp'.status = 401
             /\ resp'.body = <<"Format is not specified">>
             /\ jobs' = jobs /\ queue' = queue]_vars

\* The step is an export request with valid arguments that finds the job
\* stored under rq_id finished and up to date.
FindsFinishedExport(rq_id) ==
    /\ ExportStep(rq_id) /\ ExportArgsValid
    /\ jobs[rq_id].status = "finished"
    /\ ~OutOfDate(rq_id)

\* The result file of the job stored under rq_id is in the cache.
FilePresent(rq_id) == jobs[rq_id].return_value \in results

\* C15: an export request without action=download that finds its job
\* finished, up to date and its result file present is answered 201 and
\* leaves the job, the queue and the file as they are: the job is still
\* finished, up to date and its file present after the request, for the
\* next request to find.
C15_ReadyJobStays ==
    [][\A i \in ExportIds :
          FindsFinishedExport(i) /\ FilePresent(i) /\ resp'.args[2] # "download"
              => /\ resp'.status = 201
                 /\ resp'.calls = << >>
                 /\ jobs' = jobs /\ queue' = queue /\ results' = results
                 /\ jobs'[i].status = "finished"
                 /\ ~OutOfDate(i)' /\ FilePresent(i)']_vars

\* C15 witness: two requests in a row were answered 201 and the job is
\* still finished with its file.
C15_Witness ==
    /\ resp.op = "export" /\ resp.args = <<"CVAT", "">>
    /\ resp.found = "finished" /\ resp.status = 201
    /\ resp.seq = 0
    /\ jobs[resp.rq_id].status = "finished"
    /\ jobs[resp.rq_id].return_value \in results

\* C16: an export request with action=download that finds its job
\* finished, up to date and its result file present sends the file as an
\* attachment and deletes the job; the export request that follows for the
\* same identifier finds no job, enqueues a new one and is answered 202.
C16_DownloadDeletesJob ==
    [][\A i \in ExportIds :
          /\ FindsFinishedExport(i) /\ FilePresent(i) /\ resp'.args[2] = "download"
                => /\ resp'.status = 200
                   /\ resp'.body = <<"attachment">>
                   /\ resp'.calls = <<"delete">>
                   /\ jobs'[i] = NoJob /\ queue'[i] = 0
          /\ (ExportStep(i) /\ ExportArgsValid
                /\ resp.op = "export" /\ resp.rq_id = i /\ resp.status = 200)
                => /\ resp'.found = "absent"
                   /\ resp'.status = 202
                   /\ resp'.calls = <<"enqueue_call">>
                   /\ ReplacedByNewJob(i)]_vars

\* C16 witness: the request after a download was answered 202 and a new
\* job is queued.
C16_Witness ==
    /\ resp.op = "export" /\ resp.found = "absent" /\ resp.status = 202
    /\ resp.rq_id = TaskDatasetId("1", "CVAT")
    /\ resp.rq_id \in results
    /\ jobs[resp.rq_id].status = "queued"

\* C17: an export request that finds its job finished and up to date while
\* the result file no longer exists enqueues a new job under the same
\* identifier and is answered 202; the only call it makes on the queue is
\* the enqueue, the finished job is not deleted first.
C17_LostFileRetried ==
    [][\A i \in ExportIds :
          FindsFinishedExport(i) /\ ~FilePresent(i)
              => /\ resp'.status = 202
                 /\ resp'.found = "finished"
                 /\ resp'.calls = <<"enqueue_call">>
                 /\ ReplacedByNewJob(i)]_vars

\* C17 witness: a request found the job finished without its file and
\* enqueued the export again.
C17_Witness ==
    /\ resp.op = "export" /\ resp.found = "finished" /\ ~resp.stale
    /\ resp.status = 202
    /\ resp.calls = <<"enqueue_call">>
    /\ jobs[resp.rq_id].status = "queued"
    /\ resp.rq_id \notin results

\* The step is an upload request for rq_id with an enabled format.
UploadStep(rq_id) ==
    RequestStep /\ resp'.op = "upload" /\ resp'.rq_id = rq_id /\ ImportFormatEnabled

\* The temporary file and the descriptor recorded in the meta of the job
\* stored under rq_id exist.
TmpFileKept(rq_id) ==
    /\ jobs[rq_id].meta.tmp_file \in tmp_files
    /\ jobs[rq_id].meta.tmp_file_descriptor \in open_fds

UploadMeetsRunningJob(rq_id) ==
    /\ RequestStep /\ resp'.op = "upload" /\ resp'.rq_id = rq_id
    /\ jobs[rq_id] # NoJob
    /\ jobs[rq_id].status \in {"queued", "started"}

\* The identifier of an upload names the user and the target and holds
\* neither the format nor the file of the request.
IdOfUserAndTarget ==
    LET id == resp'.rq_id IN
    /\ id.prefix \in Users
    /\ id.path \in { <<"api", r, "1", "annotations", "upload">> : r \in {"tasks", "jobs"} }
    /\ \A k \in 1..Len(id.path) : id.path[k] \notin {resp'.args[1], resp'.args[2]}

\* The queue holds at most one entry under each upload identifier.
OneEntryPerUpload == \A i \in UploadIds : queue[i] <= 1

\* C19 as stated: the upload identifier depends on the user and the target
\* only; a PUT with a format that arrives while the upload job is queued or
\* started is answered 202, enqueues nothing and stores no file, so at most
\* one upload job exists per user and target.
C19_AsStated ==
    /\ []OneEntryPerUpload
    /\ [][RequestStep /\ resp'.op = "upload" => IdOfUserAndTarget]_vars
    /\ [][\A i \in UploadIds :
             UploadMeetsRunningJob(i)
                 => /\ resp'.status = 202
                    /\ resp'.calls = << >>
                    /\ QueueAndFilesUntouched]_vars

\* C19 amended: the PUT is answered 202 when its format is registered and
\* enabled, 400 when the format is unknown and 405 when it is disabled; in
\* every case it enqueues nothing and stores no file.
C19_OneUploadPerUserAndTarget ==
    /\ []OneEntryPerUpload
    /\ [][RequestStep /\ resp'.op = "upload" => IdOfUserAndTarget]_vars
    /\ [][\A i \in UploadIds :
             UploadMeetsRunningJob(i)
                 => /\ resp'.status =
                          (IF FormatNotRegistered(ImportFormats) THEN 400
                           ELSE IF FormatSwitchedOff(ImportFormats) THEN 405
                           ELSE 202)
                    /\ resp'.calls = << >>
                    /\ QueueAndFilesUntouched]_vars

\* C19 witness: a second upload with a valid file arrived for the job
\* identifier while the job was started and was answered 202; one temporary
\* file exists.
C19_Witness ==
    /\ resp.op = "upload" /\ resp.found = "started" /\ resp.status = 202
    /\ resp.args = <<"CVAT", "valid file">>
    /\ resp.rq_id = JobUploadId("admin1", "1")
    /\ jobs[resp.rq_id].status = "started"
    /\ Cardinality(tmp_files) = 1

\* The step is an upload request that sees the job stored under rq_id
\* finished or failed.
SeesUploadDone(rq_id) ==
    /\ RequestStep /\ resp'.op = "upload" /\ resp'.rq_id = rq_id
    /\ resp'.found \in {"finished", "failed"}

\* C20 as stated: whenever a request sees an upload job finished or
\* failed, the job's meta holds tmp_file and tmp_file_descriptor, whatever
\* the worker and other requests have done in between.
C20_AsStated ==
    [][\A i \in UploadIds :
          SeesUploadDone(i)
              => {"tmp_file", "tmp_file_descriptor"} \subseteq DOMAIN jobs[i].meta]_vars

\* C21 as stated: of the export requests for one identifier that are
\* handled at the same time and fetch no job, one enqueues: the queue holds
\* one entry under the identifier after each enqueue.
C21_AsStated ==
    [][\A i \in ExportIds :
          ExportStep(i) /\ resp'.found = "absent" /\ Enqueues(i)
              => queue'[i] = 1]_vars

\* A step in which _import_project_dataset handles a POST while a job is
\* stored under the project's import identifier.
ImportMeetsJob ==
    /\ RequestStep /\ resp'.op = "import_project"
    /\ jobs[resp'.rq_id] # NoJob

\* The job under the project's import identifier leaves the job store only
\* in an import_status request that finds it finished or failed and deletes
\* it, and an import is started only while no job is stored.
ImportStartsAfterStatusDeleted ==
    LET i == ProjectImportId("1") IN
    /\ jobs[i] # NoJob /\ jobs'[i] = NoJob
          => /\ RequestStep /\ resp'.op = "import_status" /\ resp'.rq_id = i
             /\ jobs[i].status \in {"finished", "failed"}
             /\ resp'.calls = <<"delete">>
    /\ RequestStep /\ resp'.op = "import_project" /\ resp'.calls # << >>
          => /\ jobs[i] = NoJob
             /\ resp'.status = 202 /\ resp'.calls = <<"enqueue_call">>

ImportPoll(job_status) ==
    /\ RequestStep /\ resp'.op = "import_status"
    /\ jobs[resp'.rq_id].status = job_status

\* C23: an import_status poll is answered 202, with the queue and the files
\* untouched, while the import job is queued or started; the poll that sees
\* the job finished is answered 201, closes and removes the job's temporary
\* file and deletes the job; a poll that sees no job is answered 404, and no
\* job is stored again until a POST starts a new import.
C23_ImportPolling ==
    /\ [][\A st \in {"queued", "started"} :
             ImportPoll(st) => resp'.status = 202 /\ QueueAndFilesUntouched]_vars
    /\ [][ImportPoll("finished")
             => /\ resp'.status = 201
                /\ jobs'[resp'.rq_id] = NoJob /\ queue'[resp'.rq_id] = 0
                /\ tmp_files' = tmp_files \ {jobs[resp'.rq_id].meta.tmp_file}
                /\ open_fds' = open_fds \ {jobs[resp'.rq_id].meta.tmp_file_descriptor}
                /\ jobs[resp'.rq_id].meta.tmp_file \in tmp_files]_vars
    /\ [][ImportPoll("absent")
             => resp'.status = 404 /\ QueueAndFilesUntouched]_vars
    /\ [][LET i == ProjectImportId("1") IN
          jobs[i] = NoJob /\ jobs'[i] # NoJob
             => /\ RequestStep /\ resp'.op = "import_project"
                /\ resp'.status = 202]_vars

\* A poll found the import job finished, answered 201 and deleted it; the
\* job's temporary file is gone.
C23_Witness ==
    /\ resp.op = "import_status" /\ resp.status = 201
    /\ resp.found = "finished"
    /\ jobs[resp.rq_id] = NoJob
    /\ tmp_files = {}

\* The state the claim names for the job stored under an identifier.
StateOfCondition(job) ==
    IF job = NoJob \/ job.status = "finished" THEN <<"Finished">>
    ELSE IF job.status = "queued" THEN <<"Queued">>
    ELSE IF job.status = "failed" THEN <<"Failed">>
    ELSE <<"Started">>

\* The queue as it would be with the job under job_id absent.
RqWithout(job_id) == [Rq EXCEPT !.jobs[job_id] = NoJob]

\* The queue as it would be with a finished job under job_id.
RqWithFinished(job_id) == [Rq EXCEPT !.jobs[job_id] = LegacyJob(job_id)]

\* C24: for the job under every identifier, whatever its condition,
\* TaskViewSet._get_rq_response and ProjectViewSet._get_rq_response report
\* the same single state: 'Finished' for an absent or finished job, 'Queued'
\* for a queued one, 'Failed' with the job's exc_info as message for a failed
\* one, 'Started' otherwise; the response for an absent job equals the
\* response for a finished one.
C24_SameStateFromBothViews ==
    \A i \in RqIds :
        LET t == TaskGetRqResponse(Rq, i)
            p == ProjectGetRqResponse(Rq, i)
        IN /\ t.state = p.state
           /\ t.state = StateOfCondition(jobs[i])
           /\ Len(t.state) = 1 /\ Len(p.state) = 1
           /\ jobs[i].status = "failed"
                 => t.message = jobs[i].exc_info /\ p.message = jobs[i].exc_info
           /\ TaskGetRqResponse(RqWithout(i), i) = TaskGetRqResponse(RqWithFinished(i), i)
           /\ ProjectGetRqResponse(RqWithout(i), i) = ProjectGetRqResponse(RqWithFinished(i), i)

\* The status of a task's creation job was asked for while the job had
\* failed, and both views report 'Failed' with the job's exc_info.
C24_Witness ==
    /\ resp.op = "task_status" /\ resp.found = "failed"
    /\ jobs[resp.rq_id].status = "failed"
    /\ jobs[resp.rq_id].exc_info # NoText
    /\ TaskGetRqResponse(Rq, resp.rq_id).state = <<"Failed">>
    /\ ProjectGetRqResponse(Rq, resp.rq_id).message = jobs[resp.rq_id].exc_info

\* A step in which TaskViewSet.data handles a POST for task t.
TaskDataStep(t) ==
    RequestStep /\ resp'.op = "task_data" /\ resp'.args = <<t>>

\* The step leaves the Task and Data tables and the directories alone.
TaskUntouched ==
    tasks' = tasks /\ datas' = datas /\ dirs' = dirs /\ sized' = sized

\* C25: a POST to a task's data action creates a Data record with its
\* directory and links it to the task when the task has none; when the
\* task's data has a non-zero size the POST is answered 400 'Adding more
\* data is not supported', starts no upload and changes nothing; an upload
\* is started only for a task that had no data or data of size 0.
C25_DataAttachedOnce ==
    [][\A t \in 1..MaxTasks :
          TaskDataStep(t)
              => /\ tasks[t].data = 0
                       => /\ tasks'[t].data \in datas' \ datas
                          /\ DataDir(tasks'[t].data) \in dirs'
                          /\ resp'.calls = <<"upload_data">>
                 /\ tasks[t].data \in sized
                       => /\ resp'.status = 400
                          /\ resp'.body = <<"Adding more data is not supported">>
                          /\ resp'.calls = << >>
                          /\ TaskUntouched
                 /\ resp'.calls # << >>
                       => tasks[t].data = 0 \/ tasks[t].data \notin sized]_vars

\* A POST for a task whose data has a non-zero size was refused.
C25_Witness ==
    /\ resp.op = "task_data" /\ resp.status = 400
    /\ resp.args[1] \in DOMAIN tasks
    /\ tasks[resp.args[1]].data \in sized

\* A step in which a GET data request for a task or a job is handled.
DataGetStep ==
    RequestStep /\ resp'.op \in {"task_data_get", "job_data_get"}

\* The getter constructed for the request of the step.
GetterOfStep ==
    DataChunkGetterInit(resp'.args[2], resp'.args[3],
        QueryGet(resp'.args[4], Given(<<"compressed">>)), "2d")

\* The request of the step is one the claim has rejected: its type is
\* missing or not one of the four, or it asks for a chunk or a frame and
\* its number is missing or its quality neither compressed nor original.
MustBeRejected ==
    LET ty == resp'.args[2]
        n == resp'.args[3]
        ql == QueryGet(resp'.args[4], Given(<<"compressed">>))
    IN \/ ~ty.present \/ ty.text = << >>
       \/ ty.text \notin { <<"chunk">>, <<"frame">>, <<"preview">>, <<"context_image">> }
       \/ /\ ty.text \in { <<"chunk">>, <<"frame">> }
          /\ \/ ~n.present \/ n.text = << >>
             \/ ql.text \notin { <<"compressed">>, <<"original">> }

\* C26 as stated: DataChunkGetter raises a validation error, before any
\* data is read, for every request whose type is missing or not one of
\* chunk, frame, preview, context_image and every chunk or frame request
\* whose number is missing or whose quality is not compressed or original;
\* it accepts every other request, with any quality other than
\* 'compressed' taken as original.
C26_AsStated ==
    [][DataGetStep
          => IF MustBeRejected
             THEN /\ GetterOfStep.raised = "ValidationError"
                  /\ resp'.status = 400 /\ resp'.found = "unfetched"
             ELSE /\ GetterOfStep.raised = ""
                  /\ GetterOfStep.quality =
                        (IF QueryGet(resp'.args[4], Given(<<"compressed">>)).text
                                = <<"compressed">>
                         THEN "COMPRESSED" ELSE "ORIGINAL")]_vars

\* C27 as stated: a GET data request that the getter accepts, for a task or
\* a job whose Data record is absent, is answered 404 'Cannot find requested
\* data'.
C27_AsStated ==
    [][DataGetStep /\ GetterOfStep.raised = "" /\ tasks[resp'.args[1]].data = 0
          => /\ resp'.status = 404
             /\ resp'.body = <<"Cannot find requested data">>]_vars

====
